---- MODULE Spec2Model ----
(***************************************************************************)
(* A model of the TakeOff2 extraction orchestrator (src/src/agents/        *)
(* orchestrator.py) and of the iteration store (src/src/verifier/          *)
(* persistence.py).                                                        *)
(*                                                                         *)
(* Conventions.                                                            *)
(*  - Python None is the string "null" where the field is a string, and a  *)
(*    record with a flag where the field is a number or a structure.       *)
(*  - Bearings are floats in the code; here they are integers counting     *)
(*    tenths of a degree (720 is 72.0 degrees).  Agent replies are drawn   *)
(*    from whole degrees, for which the arithmetic of                      *)
(*    verify_orientation_passes is exact in this unit.                     *)
(*  - An agent reply is text in the code.  Here it is already classified   *)
(*    by what invoke_claude_agent and extract_json_from_response make of   *)
(*    it: "exit_nonzero" and "timeout" raise RuntimeError, "unparseable"   *)
(*    raises ValueError, and "ok" yields the parsed JSON value.            *)
(***************************************************************************)
EXTENDS Integers, Sequences, FiniteSets, TLC

(***************************************************************************)
(* Program constants and bounds                                            *)
(***************************************************************************)

\* EXTRACTION_SEMAPHORE = asyncio.Semaphore(4)
SemCapacity == 4

\* schemas/discovery.py: CACHE_VERSION = 2
CACHE_VERSION == 2

\* cache_data.get("cache_version", 1): the version assumed for a cache file
\* that carries none
DefaultCacheVersion == 1

\* extract_with_retry: for attempt in range(2)
MaxAttempts == 2

\* bound: run_extraction calls made one after the other on the same
\* evaluation directory in one behaviour
MaxRuns == 2

Domains == {"zones", "windows", "hvac", "dhw"}

Passes == {1, 2}

\* the ways an agent invocation ends without a parsed reply
FailureKinds == {"exit_nonzero", "timeout", "unparseable"}

(***************************************************************************)
(* Discovery schema (schemas/discovery.py)                                 *)
(***************************************************************************)

PageTypes == {"schedule", "cbecc", "drawing", "other"}

\* A page as it stands in JSON.  subtype "absent" is a missing key.
RawPage(n, t, s, tags) ==
    [page_number |-> n, page_type |-> t, subtype |-> s, content_tags |-> tags]

\* PageInfo.model_validate: page_number >= 1, page_type in the enum; a missing
\* subtype takes its default None.
PageValid(p) == p.page_number >= 1 /\ p.page_type \in PageTypes

PageInfo(p) ==
    [p EXCEPT !.subtype = IF p.subtype = "absent" THEN "null" ELSE p.subtype]

\* A document map as it stands in JSON.  has_version is FALSE when the
\* cache_version key is missing.
RawMap(hv, v, tp, pgs) ==
    [has_version |-> hv, cache_version |-> v, total_pages |-> tp, pages |-> pgs]

\* The value that stands for "no document map yet"; it is not a valid map.
NoMap == RawMap(TRUE, 0, 0, <<>>)

\* DocumentMap.model_validate succeeds: total_pages >= 1 and every page valid.
MapValid(raw) ==
    /\ raw.total_pages >= 1
    /\ \A i \in 1..Len(raw.pages) : PageValid(raw.pages[i])

\* DocumentMap.model_validate followed by model_dump: defaults filled in.
DocumentMap(raw) ==
    [has_version |-> TRUE,
     cache_version |-> IF raw.has_version THEN raw.cache_version ELSE CACHE_VERSION,
     total_pages |-> raw.total_pages,
     pages |-> [i \in 1..Len(raw.pages) |-> PageInfo(raw.pages[i])]]

PagesOfType(m, t) ==
    {m.pages[i].page_number : i \in {j \in 1..Len(m.pages) : m.pages[j].page_type = t}}

PagesBySubtype(m, s) ==
    {m.pages[i].page_number : i \in {j \in 1..Len(m.pages) : m.pages[j].subtype = s}}

PagesWithAnyTag(m, tags) ==
    {m.pages[i].page_number :
        i \in {j \in 1..Len(m.pages) : m.pages[j].content_tags \cap tags # {}}}

\* lst[:k] of the list of page numbers with the given property, in page-list
\* order: the page numbers at the first k positions that have the property.
\* has gives the positions of the page list that have the property.
FirstK(m, has, k) ==
    {m.pages[i].page_number :
        i \in {j \in has : Cardinality({h \in has : h <= j}) <= k}}

\* the positions of the pages drawing_pages and floor_plan_pages list
IsDrawing(m) == {j \in 1..Len(m.pages) : m.pages[j].page_type = "drawing"}
IsFloorPlan(m) == {j \in 1..Len(m.pages) : m.pages[j].subtype = "floor_plan"}

\* get_relevant_pages_for_domain, the subtype and tag routing
RoutedPages(domain, m) ==
    CASE domain = "orientation" ->
           PagesBySubtype(m, "site_plan") \cup PagesBySubtype(m, "floor_plan")
           \cup PagesBySubtype(m, "elevation") \cup PagesWithAnyTag(m, {"north_arrow"})
      [] domain = "zones" ->
           PagesBySubtype(m, "floor_plan") \cup PagesBySubtype(m, "section")
           \cup PagesBySubtype(m, "detail") \cup PagesBySubtype(m, "energy_summary")
           \cup PagesBySubtype(m, "room_schedule") \cup PagesBySubtype(m, "wall_schedule")
           \cup PagesWithAnyTag(m, {"room_labels", "area_callouts", "ceiling_heights",
                                    "wall_assembly", "insulation_values"})
      [] domain = "windows" ->
           PagesBySubtype(m, "window_schedule") \cup PagesBySubtype(m, "elevation")
           \cup PagesBySubtype(m, "floor_plan") \cup PagesBySubtype(m, "energy_summary")
           \cup PagesWithAnyTag(m, {"glazing_performance", "window_callouts"})
      [] domain = "hvac" ->
           PagesBySubtype(m, "equipment_schedule") \cup PagesBySubtype(m, "mechanical_plan")
           \cup PagesBySubtype(m, "energy_summary")
           \cup PagesWithAnyTag(m, {"hvac_equipment", "hvac_specs"})
      [] domain = "dhw" ->
           PagesBySubtype(m, "equipment_schedule") \cup PagesBySubtype(m, "plumbing_plan")
           \cup PagesBySubtype(m, "energy_summary")
           \cup PagesWithAnyTag(m, {"water_heater", "dhw_specs"})
      [] domain = "project" ->
           PagesOfType(m, "schedule") \cup PagesOfType(m, "cbecc")
           \cup PagesBySubtype(m, "energy_summary") \cup PagesBySubtype(m, "site_plan")
           \cup FirstK(m, IsFloorPlan(m), 3)
      [] OTHER -> {}

\* get_relevant_pages_for_domain, the fallback on coarse page types
FallbackPages(domain, m) ==
    CASE domain \in {"hvac", "dhw"} ->
           PagesOfType(m, "schedule") \cup PagesOfType(m, "cbecc")
      [] domain \in {"windows", "zones"} ->
           PagesOfType(m, "schedule") \cup PagesOfType(m, "cbecc")
           \cup PagesOfType(m, "drawing")
      [] domain = "orientation" -> FirstK(m, IsDrawing(m), 7)
      [] domain = "project" ->
           PagesOfType(m, "schedule") \cup PagesOfType(m, "cbecc")
           \cup FirstK(m, IsDrawing(m), 5)
      [] OTHER -> {}

\* get_relevant_pages_for_domain: the set of the sorted list it returns
get_relevant_pages_for_domain(domain, m) ==
    IF RoutedPages(domain, m) # {} THEN RoutedPages(domain, m)
    ELSE FallbackPages(domain, m)

\* build_pdf_read_instructions raises IndexError on an empty page list
\* (list(pages_by_pdf.keys())[0]); build_domain_prompt passes the routed pages
\* to it unchanged.
build_domain_prompt_raises(domain, m) ==
    get_relevant_pages_for_domain(domain, m) = {}

(***************************************************************************)
(* Orientation fusion                                                      *)
(***************************************************************************)

\* 360 degrees, 180 degrees, and the band limits of verify_orientation_passes,
\* in tenths of a degree
FullCircle == 3600
HalfCircle == 1800
AgreeMax == 200
SideLo == 700
SideHi == 1100
BackLo == 1600
BackHi == 2000

\* A JSON number, or a JSON value that is no number (null, a string)
Num(x) == [num |-> TRUE, v |-> x]
NotNum == [num |-> FALSE, v |-> 0]

Abs(x) == IF x < 0 THEN -x ELSE x
Min(a, b) == IF a <= b THEN a ELSE b

\* angular_distance(a, b)
angular_distance(a, b) ==
    LET diff == Abs(a - b) % FullCircle
    IN  Min(diff, FullCircle - diff)

\* the dict returned by run_orientation_pass_async; the error text and the
\* full reply, which nothing reads afterwards, are left out
PassSuccess(o, c) == [status |-> "success", orientation |-> o, confidence |-> c]
PassError == [status |-> "error", orientation |-> NotNum, confidence |-> "null"]
PassPending == [status |-> "pending", orientation |-> NotNum, confidence |-> "null"]

\* the fault of a rank that knows no confidence word
conf_rank_flat(c) == 0

\* conf_rank.get(confidence, 0)
conf_rank(c) ==
    CASE c = "high" -> 3
      [] c = "medium" -> 2
      [] c = "low" -> 1
      [] OTHER -> 0

Verification(o, c, v) ==
    [raised |-> FALSE, final_orientation |-> o, confidence |-> c, verification |-> v]

\* abs(o1 - o2) on a value that is no number raises TypeError
VerificationRaised ==
    [raised |-> TRUE, final_orientation |-> NotNum, confidence |-> "null",
     verification |-> "null"]

\* verify_orientation_passes(pass1, pass2)
verify_orientation_passes(pass1, pass2) ==
    IF pass1.status # "success" /\ pass2.status # "success"
    THEN Verification(Num(0), "low", "both_failed")
    ELSE IF pass1.status # "success"
    THEN Verification(pass2.orientation, pass2.confidence, "pass1_failed")
    ELSE IF pass2.status # "success"
    THEN Verification(pass1.orientation, pass1.confidence, "pass2_failed")
    ELSE IF ~pass1.orientation.num \/ ~pass2.orientation.num
    THEN VerificationRaised
    ELSE
      LET o1 == pass1.orientation.v
          o2 == pass2.orientation.v
          diff == angular_distance(o1, o2)
          avg == (o1 + o2) \div 2
          chosen == IF conf_rank(pass1.confidence) >= conf_rank(pass2.confidence)
                    THEN o1 ELSE o2
      IN  IF diff <= AgreeMax
          THEN Verification(
                 Num(IF Abs(o1 - o2) > HalfCircle
                     THEN (avg + HalfCircle) % FullCircle ELSE avg),
                 "high", "agreement")
          ELSE IF SideLo <= diff /\ diff <= SideHi
          THEN Verification(Num(chosen), "low", "side_front_confusion")
          ELSE IF BackLo <= diff /\ diff <= BackHi
          THEN Verification(Num(chosen), "low", "front_back_confusion")
          ELSE Verification(Num(chosen), "low", "disagreement")

\* _azimuth_to_direction(azimuth) raises TypeError when azimuth is no number
azimuth_to_direction_raises(azimuth) == ~azimuth.num

\* run_orientation_twopass_async after both passes have returned: whether it
\* raises, and the orientation data it returns otherwise
OrientationData(o, c, v) ==
    [front_orientation |-> o, confidence |-> c, verification |-> v]

NoOrientation == OrientationData(NotNum, "null", "pending")

twopass_raises(pass1, pass2) ==
    LET ver == verify_orientation_passes(pass1, pass2)
    IN  ver.raised \/ azimuth_to_direction_raises(ver.final_orientation)

twopass_result(pass1, pass2) ==
    LET ver == verify_orientation_passes(pass1, pass2)
    IN  OrientationData(ver.final_orientation, ver.confidence, ver.verification)

(***************************************************************************)
(* Domain data and the merge                                               *)
(***************************************************************************)

\* the wall keys, in the order of HouseWalls.get_all_walls
Orients == <<"north", "east", "south", "west">>
OrientSet == {"north", "east", "south", "west"}

\* A named list entry (a fenestration entry, a ceiling, an HVAC system, ...):
\* its name and one value standing for its other fields.  A legacy window also
\* carries the orientation word its wall name contains ("" for none) and its
\* azimuth in whole degrees.
Item(n, x) == [name |-> n, v |-> x, wall |-> "", azimuth |-> 0]
LegacyWindow(n, x, w, az) == [name |-> n, v |-> x, wall |-> w, azimuth |-> az]

\* A wall dict under house_walls.<orientation>.  present is FALSE for a missing
\* key, None or an empty dict; has_fenestration is the "fenestration" key.
WallData(az, area, hasfen, fen) ==
    [present |-> TRUE, azimuth |-> az, gross_wall_area |-> area,
     has_fenestration |-> hasfen, fenestration |-> fen]
NoWall ==
    [present |-> FALSE, azimuth |-> NotNum, gross_wall_area |-> 0,
     has_fenestration |-> FALSE, fenestration |-> <<>>]
NoWalls == [o \in OrientSet |-> NoWall]

\* OrientationWall.model_validate(wall_data): fenestration defaults to []
OrientationWall(w) == [w EXCEPT !.has_fenestration = TRUE]

ListKeys == {"ceilings", "slab_floors", "conditioned_zones", "windows",
             "hvac_systems", "dhw_systems", "water_heating_systems", "zones", "walls"}
NoLists == [k \in ListKeys |-> <<>>]

\* The JSON object a domain extractor replied with.  keys are the top-level
\* keys present; valid is FALSE when some list entry fails the model_validate
\* the merge applies to it (the azimuth of a wall is validated by its value).
DomainData(ks, hw, ls, fl, ok) ==
    [is_null |-> FALSE, keys |-> ks, house_walls |-> hw, lists |-> ls, flags |-> fl,
     valid |-> ok]

\* the data of a domain that returned None
NoData ==
    [is_null |-> TRUE, keys |-> {}, house_walls |-> NoWalls, lists |-> NoLists,
     flags |-> <<>>, valid |-> TRUE]

\* the truth value of a data payload: None and {} are false
Truthy(d) == d.keys # {}

\* the list under key k, when the key is present
ListOf(d, k) == IF k \in d.keys THEN d.lists[k] ELSE <<>>

\* ExtractionStatus
ExtractionStatus(dom, st, err, rc, n) ==
    [domain |-> dom, status |-> st, error |-> err, retry_count |-> rc,
     items_extracted |-> n]

NoStatus == ExtractionStatus("null", "pending", "null", 0, 0)

RECURSIVE SumLen(_, _)
SumLen(ls, ks) ==
    IF ks = {} THEN 0
    ELSE LET k == CHOOSE x \in ks : TRUE
         IN  Len(ls[k]) + SumLen(ls, ks \ {k})

\* extract_with_retry, the item count: the lengths of the list values
ItemsExtracted(d) ==
    SumLen(d.lists, d.keys \cap ListKeys)
    + (IF "flags" \in d.keys THEN Len(d.flags) ELSE 0)

\* the legacy bucket of merge_to_takeoff_spec: the first wall key whose test
\* the window passes
LegacyBucket(w) ==
    IF w.wall = "north" \/ w.azimuth >= 315 \/ w.azimuth < 45 THEN "north"
    ELSE IF w.wall = "east" \/ (45 <= w.azimuth /\ w.azimuth < 135) THEN "east"
    ELSE IF w.wall = "south" \/ (135 <= w.azimuth /\ w.azimuth < 225) THEN "south"
    ELSE "west"

\* FenestrationEntry.model_validate(w) of a legacy window: wall and azimuth
\* are no fields of the entry
FenestrationEntry(w) == Item(w.name, w.v)

\* the loop over the flat windows list: the entries appended to wall o, in
\* list order
InBucket(windows, o) ==
    LET F[i \in 0..Len(windows)] ==
          IF i = 0 THEN <<>>
          ELSE IF LegacyBucket(windows[i]) = o
               THEN Append(F[i - 1], FenestrationEntry(windows[i]))
               ELSE F[i - 1]
    IN  F[Len(windows)]


\* merge_to_takeoff_spec: house_walls after the zones data
WallsFromZones(zones_data) ==
    [o \in OrientSet |->
       IF Truthy(zones_data) /\ "house_walls" \in zones_data.keys
          /\ zones_data.house_walls[o].present
       THEN OrientationWall(zones_data.house_walls[o])
       ELSE NoWall]

\* merge_to_takeoff_spec: house_walls after the windows data
WallsAfterWindows(walls, windows_data) ==
    IF ~Truthy(windows_data) THEN walls
    ELSE IF "house_walls" \in windows_data.keys
    THEN [o \in OrientSet |->
            LET wall_data == windows_data.house_walls[o]
            IN  IF ~wall_data.present THEN walls[o]
                ELSE IF ~walls[o].present THEN OrientationWall(wall_data)
                ELSE IF wall_data.has_fenestration
                THEN [walls[o] EXCEPT !.fenestration = wall_data.fenestration]
                ELSE walls[o]]
    ELSE IF "windows" \in windows_data.keys
    THEN [o \in OrientSet |->
            LET mine == InBucket(windows_data.lists["windows"], o)
            IN  IF mine = <<>> THEN walls[o]
                ELSE IF ~walls[o].present
                THEN OrientationWall(WallData(NotNum, 0, TRUE, mine))
                ELSE [walls[o] EXCEPT !.fenestration = walls[o].fenestration \o mine]]
    ELSE walls

\* merge_to_takeoff_spec: the uncertainty flags, in the order collected
MergedFlags(ex) ==
    (IF Truthy(ex["zones"].data) /\ "flags" \in ex["zones"].data.keys
     THEN ex["zones"].data.flags ELSE <<>>)
    \o (IF Truthy(ex["windows"].data) /\ "flags" \in ex["windows"].data.keys
        THEN ex["windows"].data.flags ELSE <<>>)
    \o (IF Truthy(ex["hvac"].data) /\ "hvac_systems" \in ex["hvac"].data.keys
           /\ "flags" \in ex["hvac"].data.keys
        THEN ex["hvac"].data.flags ELSE <<>>)
    \o (IF Truthy(ex["dhw"].data) /\ "dhw_systems" \in ex["dhw"].data.keys
           /\ "flags" \in ex["dhw"].data.keys
        THEN ex["dhw"].data.flags ELSE <<>>)

\* OrientationWall.azimuth: Optional[float], ge=0, lt=360 (whole degrees here)
AzimuthLimit == 360
AzimuthAny(az) == TRUE
AzimuthInRange(az) == ~az.num \/ (0 <= az.v /\ az.v < AzimuthLimit)

\* the wall dicts merge_to_takeoff_spec hands to OrientationWall.model_validate:
\* every wall of the zones data, and a wall of the nested windows data when
\* the zones data set no wall of that key
WallsValidated(ex) ==
    LET zd == ex["zones"].data
        wd == ex["windows"].data
    IN  {zd.house_walls[o] : o \in {x \in OrientSet :
            Truthy(zd) /\ "house_walls" \in zd.keys /\ zd.house_walls[x].present}}
        \cup
        {wd.house_walls[o] : o \in {x \in OrientSet :
            /\ Truthy(wd) /\ "house_walls" \in wd.keys /\ wd.house_walls[x].present
            /\ ~WallsFromZones(zd)[x].present}}

\* merge_to_takeoff_spec and merge_extractions raise a ValidationError on data
\* that does not fit the schema; data that is None or {} is never validated
merge_raises(ex) ==
    \/ \E d \in Domains : Truthy(ex[d].data) /\ ~ex[d].data.valid
    \/ \E w \in WallsValidated(ex) : ~AzimuthInRange(w.azimuth)

\* merge_to_takeoff_spec(project_data, domain_extractions)
merge_to_takeoff_spec(project_data, ex) ==
    [project |-> project_data,
     house_walls |-> WallsAfterWindows(WallsFromZones(ex["zones"].data), ex["windows"].data),
     conditioned_zones |->
        IF Truthy(ex["zones"].data) THEN ListOf(ex["zones"].data, "conditioned_zones")
        ELSE <<>>,
     ceilings |->
        IF Truthy(ex["zones"].data) THEN ListOf(ex["zones"].data, "ceilings") ELSE <<>>,
     slab_floors |->
        IF Truthy(ex["zones"].data) THEN ListOf(ex["zones"].data, "slab_floors") ELSE <<>>,
     hvac_systems |->
        IF Truthy(ex["hvac"].data) THEN ListOf(ex["hvac"].data, "hvac_systems") ELSE <<>>,
     dhw_systems |->
        IF Truthy(ex["dhw"].data) THEN ListOf(ex["dhw"].data, "dhw_systems") ELSE <<>>,
     flags |-> MergedFlags(ex)]

\* ExtractionConflict as deduplicate_by_name builds it
ExtractionConflict(n, source, first, later) ==
    [field |-> "array_item", item_name |-> n, source_extractor |-> source,
     reported_value |-> first, conflicting_extractor |-> source,
     conflicting_value |-> later, resolution |-> "kept_first"]

\* a deduplication that keeps every item and records nothing
dedup_keep_all(items, source) == [kept |-> items, conflicts |-> <<>>]

\* deduplicate_by_name(items, source): the first entry of each name, in input
\* order, and one conflict for each later entry that differs from it
deduplicate_by_name(items, source) ==
    LET F[i \in 0..Len(items)] ==
          IF i = 0 THEN [kept |-> <<>>, conflicts |-> <<>>]
          ELSE LET prev == F[i - 1]
                   item == items[i]
                   hit == {j \in 1..Len(prev.kept) : prev.kept[j].name = item.name}
               IN  IF item.name = "null" THEN prev
                   ELSE IF hit = {} THEN [prev EXCEPT !.kept = Append(@, item)]
                   ELSE LET existing == prev.kept[CHOOSE j \in hit : TRUE]
                        IN  IF item # existing
                            THEN [prev EXCEPT !.conflicts =
                                    Append(@, ExtractionConflict(item.name, source,
                                                                 existing, item))]
                            ELSE prev
    IN  F[Len(items)]

\* merge_extractions: the conflict list, in the order zones, walls, windows,
\* hvac, dhw
LegacyConflicts(ex) ==
    LET zd == ex["zones"].data
        wd == ex["windows"].data
        hd == ex["hvac"].data
        dd == ex["dhw"].data
    IN  (IF Truthy(zd) THEN deduplicate_by_name(ListOf(zd, "zones"), "zones").conflicts
         ELSE <<>>)
        \o (IF Truthy(zd) THEN deduplicate_by_name(ListOf(zd, "walls"), "zones").conflicts
            ELSE <<>>)
        \o (IF Truthy(wd) THEN deduplicate_by_name(ListOf(wd, "windows"), "windows").conflicts
            ELSE <<>>)
        \o (IF Truthy(hd) THEN deduplicate_by_name(ListOf(hd, "hvac_systems"), "hvac").conflicts
            ELSE <<>>)
        \o (IF Truthy(dd)
            THEN deduplicate_by_name(ListOf(dd, "water_heating_systems"), "dhw").conflicts
            ELSE <<>>)

\* merge_extractions: the extraction status map
StatusKeys == Domains \cup {"project"}

LegacyStatus(ex) ==
    [k \in StatusKeys |->
       IF k = "project" THEN ExtractionStatus("project", "success", "null", 0, 2)
       ELSE ex[k].status]

\* ORIENTATION_TO_WALL_NAME and ORIENTATION_TO_AZIMUTH (whole degrees)
WallName(o) ==
    CASE o = "north" -> "N Wall"
      [] o = "east" -> "E Wall"
      [] o = "south" -> "S Wall"
      [] o = "west" -> "W Wall"

DefaultAzimuth(o) ==
    CASE o = "north" -> 0
      [] o = "east" -> 90
      [] o = "south" -> 180
      [] o = "west" -> 270

WallAzimuth(o, wall) == IF wall.azimuth.num THEN wall.azimuth.v ELSE DefaultAzimuth(o)

\* _transform_walls: one WallComponent for each wall that is set, in key order
transform_walls(house_walls) ==
    LET F[i \in 0..Len(Orients)] ==
          IF i = 0 THEN <<>>
          ELSE IF house_walls[Orients[i]].present
          THEN Append(F[i - 1],
                      [name |-> WallName(Orients[i]),
                       orientation |-> WallAzimuth(Orients[i], house_walls[Orients[i]]),
                       area |-> house_walls[Orients[i]].gross_wall_area])
          ELSE F[i - 1]
    IN  F[Len(Orients)]

\* _transform_windows: one WindowComponent for each nested fenestration entry
transform_windows(house_walls) ==
    LET F[i \in 0..Len(Orients)] ==
          IF i = 0 THEN <<>>
          ELSE IF house_walls[Orients[i]].present
          THEN F[i - 1] \o
               [j \in 1..Len(house_walls[Orients[i]].fenestration) |->
                  [name |-> house_walls[Orients[i]].fenestration[j].name,
                   v |-> house_walls[Orients[i]].fenestration[j].v,
                   wall |-> WallName(Orients[i]),
                   azimuth |-> WallAzimuth(Orients[i], house_walls[Orients[i]])]]
          ELSE F[i - 1]
    IN  F[Len(Orients)]

\* _transform_ceilings keeps the ceilings whose name, type or construction
\* holds "cathedral" or "vaulted"; here the two names that do
CathedralNames == {"Cathedral Ceiling", "Vaulted Ceiling"}
IsCathedral(c) == c.name \in CathedralNames

\* the project part of the parsed project-extractor reply, and the value for
\* "no project data yet"
ProjectInfo(title, fo, oc, ov) ==
    [run_title |-> title, front_orientation |-> fo, orientation_confidence |-> oc,
     orientation_verification |-> ov]
NoProject == ProjectInfo("null", NotNum, "null", "null")

\* run_project_extraction, the result built from a valid reply: orientation
\* fields are written only when orientation_data is given
project_result(reply, orientation_data) ==
    IF orientation_data # NoOrientation
    THEN [reply EXCEPT !.front_orientation = orientation_data.front_orientation,
                       !.orientation_confidence = orientation_data.confidence,
                       !.orientation_verification = orientation_data.verification]
    ELSE reply

\* transform_takeoff_to_building_spec(takeoff), with the status map and the
\* conflicts run_extraction attaches
BuildingSpec(takeoff, status, conflicts) ==
    [present |-> TRUE,
     project |-> takeoff.project,
     zones |-> takeoff.conditioned_zones,
     walls |-> transform_walls(takeoff.house_walls),
     windows |-> transform_windows(takeoff.house_walls),
     ceilings |-> SelectSeq(takeoff.ceilings, IsCathedral),
     slab_floors |-> takeoff.slab_floors,
     hvac_systems |-> takeoff.hvac_systems,
     water_heating_systems |-> takeoff.dhw_systems,
     extraction_status |-> status,
     conflicts |-> conflicts]

\* "building_spec": None
NoSpec ==
    [present |-> FALSE,
     project |-> NoProject,
     zones |-> <<>>, walls |-> <<>>, windows |-> <<>>, ceilings |-> <<>>,
     slab_floors |-> <<>>, hvac_systems |-> <<>>, water_heating_systems |-> <<>>,
     extraction_status |-> [k \in StatusKeys |-> NoStatus],
     conflicts |-> <<>>]

(***************************************************************************)
(* The inputs: what the files hold and what the agents reply               *)
(***************************************************************************)

\* Document maps the discovery agent may reply with or the cache may hold.
\* MapFull routes pages to every domain; MapDrawing has one drawing page, so
\* hvac and dhw get no page; MapOther has one page of type other, so the
\* project extractor gets none; MapBad fails validation (total_pages 0).
PageSchedule == RawPage(1, "schedule", "absent", {})
PageFloorPlan == RawPage(2, "drawing", "floor_plan", {"north_arrow"})
PageDrawing == RawPage(1, "drawing", "absent", {})
PageOther == RawPage(1, "other", "absent", {})

MapFull(hv, v) == RawMap(hv, v, 2, <<PageSchedule, PageFloorPlan>>)
MapDrawing(hv, v) == RawMap(hv, v, 1, <<PageDrawing>>)
MapOther(hv, v) == RawMap(hv, v, 1, <<PageOther>>)
MapBad(hv, v) == RawMap(hv, v, 0, <<>>)

\* the replies of the discovery agent that parse as JSON
DiscoveryReplies ==
    {MapFull(FALSE, 0), MapDrawing(FALSE, 0), MapOther(TRUE, 1), MapBad(FALSE, 0)}

\* The cache file: missing, not a JSON object, or a JSON object.
CacheFile(doc) == [exists |-> TRUE, parses |-> TRUE, doc |-> doc]
NoCacheFile == [exists |-> FALSE, parses |-> FALSE, doc |-> NoMap]
CorruptCacheFile == [exists |-> TRUE, parses |-> FALSE, doc |-> NoMap]

InitialCaches ==
    {NoCacheFile, CorruptCacheFile,
     CacheFile(MapFull(TRUE, CACHE_VERSION)),
     CacheFile(MapFull(TRUE, CACHE_VERSION - 1)),
     CacheFile(MapFull(FALSE, 0)),
     CacheFile(MapDrawing(TRUE, CACHE_VERSION + 1)),
     CacheFile(MapBad(TRUE, CACHE_VERSION))}

\* the replies of the project extractor that parse as JSON: one that has the
\* project and envelope keys and validates, and one that does not
ProjectReply == ProjectInfo("Run 1", NotNum, "null", "null")
ProjectReplies == {[valid |-> TRUE, project |-> ProjectReply],
                   [valid |-> FALSE, project |-> NoProject]}

\* the replies of the domain extractors that parse as a JSON object
ZonesReply ==
    DomainData({"house_walls", "ceilings", "flags"},
               [NoWalls EXCEPT !["north"] = WallData(Num(350), 100, FALSE, <<>>),
                               !["east"] = WallData(NotNum, 80, TRUE, <<Item("W0", 1)>>)],
               [NoLists EXCEPT !["ceilings"] =
                   <<Item("Cathedral Ceiling", 1), Item("Attic", 2)>>],
               <<"house_walls.north.gross_wall_area">>, TRUE)
ZonesInvalid ==
    DomainData({"house_walls"},
               [NoWalls EXCEPT !["north"] = WallData(Num(400), 100, FALSE, <<>>)],
               NoLists, <<>>, TRUE)
WindowsNested ==
    DomainData({"house_walls", "flags"},
               [NoWalls EXCEPT !["east"] = WallData(NotNum, 0, TRUE, <<Item("W1", 1)>>),
                               !["south"] = WallData(Num(180), 0, TRUE, <<Item("W2", 2)>>)],
               NoLists, <<"house_walls.east.fenestration">>, TRUE)
WindowsLegacy ==
    DomainData({"windows"}, NoWalls,
               [NoLists EXCEPT !["windows"] =
                   <<LegacyWindow("W1", 1, "", 10), LegacyWindow("W1", 2, "east", 10),
                     LegacyWindow("W3", 3, "", 200)>>],
               <<>>, TRUE)
HvacReply ==
    DomainData({"hvac_systems", "flags"}, NoWalls,
               [NoLists EXCEPT !["hvac_systems"] = <<Item("HP1", 1), Item("HP1", 2)>>],
               <<"hvac_systems[0].seer2">>, TRUE)
EmptyReply == DomainData({}, NoWalls, NoLists, <<>>, TRUE)
DhwReply ==
    DomainData({"dhw_systems", "water_heating_systems"}, NoWalls,
               [NoLists EXCEPT !["dhw_systems"] = <<Item("WH1", 1)>>,
                               !["water_heating_systems"] = <<Item("WH1", 1)>>],
               <<>>, TRUE)

DomainReplies(d) ==
    CASE d = "zones" -> {ZonesReply, ZonesInvalid}
      [] d = "windows" -> {WindowsNested, WindowsLegacy}
      [] d = "hvac" -> {HvacReply, EmptyReply}
      [] d = "dhw" -> {DhwReply}

\* The JSON object an orientation pass replied with; a missing key is has_* =
\* FALSE.  The replies drawn: a bearing of 90 degrees with confidence high, and
\* a bearing that is no number (null) without a confidence.
PassReply(ho, o, hc, c) ==
    [has_orientation |-> ho, front_orientation |-> o,
     has_confidence |-> hc, confidence |-> c]
PassReplies ==
    {PassReply(TRUE, Num(900), TRUE, "high"), PassReply(TRUE, NotNum, FALSE, "null")}

\* run_orientation_pass_async, the success dict: json_data.get(
\* "front_orientation", 0) and json_data.get("confidence", "unknown")
pass_result(reply) ==
    PassSuccess(IF reply.has_orientation THEN reply.front_orientation ELSE Num(0),
                IF reply.has_confidence THEN reply.confidence ELSE "unknown")

(***************************************************************************)
(* State                                                                   *)
(***************************************************************************)

VARIABLES
    pc,            \* where run_extraction stands: "start", "discovery",
                   \* "stage1", "abort", "fanout", "done"
    run_no,        \* the number of the run_extraction call in progress
    sem,           \* the free permits of EXTRACTION_SEMAPHORE
    cache,         \* the discovery cache file of the evaluation
    document_map,  \* the local document_map of the call
    disc_calls,    \* discovery-agent invocations made by the call
    pass,          \* the two orientation pass tasks
    orientation,   \* run_orientation_twopass_async after its gather
    project,       \* the thread running run_project_extraction
    dom,           \* the four extract_with_retry tasks
    timing,        \* the keys of the timing dict
    result,        \* the record run_extraction returned
    results_dir,   \* whether evals/<eval_id>/results exists
    iterations,    \* the iteration directories under it and their files
    aggregate,     \* results/aggregate.json
    saver,         \* the callers that save evaluation results
    files,         \* the instruction files under .claude/instructions
    tree,          \* the iteration directories of every evaluation
    cli_out,       \* what the last improvement command reported
    fuse_in,       \* the two pass results given to verify_orientation_passes
    fused,         \* what verify_orientation_passes returned for them
    disc_in,       \* a document map as JSON, from the agent or the cache file
    disc_out,      \* the DocumentMap the evaluation proceeds with, if any
    dedup_in,      \* the items and the source handed to deduplicate_by_name
    dedup_out,     \* what deduplicate_by_name returned for them
    cmp_in,        \* the ground truth and the extracted record given to verify_one
    cmp_out,       \* the discrepancies compare_fields returned
    met_in,        \* the arguments of compute_field_level_metrics
    met_out,       \* the metrics it returned
    gather_in,     \* the result each extract_with_retry task will return
    finished,      \* the domains whose task has completed, in completion order
    gathered,      \* what the merge made of the gathered results
    sem_value,     \* the counter of EXTRACTION_SEMAPHORE shared by the worker threads
    sem_loop,      \* the event loop the semaphore is bound to (0: none yet)
    sem_waiters,   \* the futures of the invocations waiting for a permit
    worker         \* the run_extraction call of each worker thread

impvars == <<files, tree, cli_out>>
runvars == <<pc, run_no, sem, cache, document_map, disc_calls,
             pass, orientation, project, dom, timing, result>>
storevars == <<results_dir, iterations, aggregate, saver>>
fusevars == <<fuse_in, fused>>
discvars == <<disc_in, disc_out>>
dedupvars == <<dedup_in, dedup_out>>
verifyvars == <<cmp_in, cmp_out, met_in, met_out>>
gathervars == <<gather_in, finished, gathered>>
workervars == <<sem_value, sem_loop, sem_waiters, worker>>
vars == <<runvars, storevars, impvars, fusevars, discvars, dedupvars, verifyvars, gathervars, workervars>>
nonrunvars == <<storevars, impvars, fusevars, discvars, dedupvars, verifyvars, gathervars, workervars>>
nonstorevars == <<runvars, impvars, fusevars, discvars, dedupvars, verifyvars, gathervars, workervars>>
nonimpvars == <<runvars, storevars, fusevars, discvars, dedupvars, verifyvars, gathervars, workervars>>
nonfusevars == <<runvars, storevars, impvars, discvars, dedupvars, verifyvars, gathervars, workervars>>
nondiscvars == <<runvars, storevars, impvars, fusevars, dedupvars, verifyvars, gathervars, workervars>>
nondedupvars == <<runvars, storevars, impvars, fusevars, discvars, verifyvars, gathervars, workervars>>
nonverifyvars == <<runvars, storevars, impvars, fusevars, discvars, dedupvars, gathervars, workervars>>
nongathervars == <<runvars, storevars, impvars, fusevars, discvars, dedupvars, verifyvars, workervars>>
nonworkervars == <<runvars, storevars, impvars, fusevars, discvars, dedupvars, verifyvars, gathervars>>

\* a task record of an orientation pass: "idle", "holding" (permit held, the
\* thread queued), "running" (the agent process spawned), "done", and after a
\* cancellation "cancelled_queued", "cancelled_running", "cancelled"
PassTask(t, r) == [task |-> t, result |-> r]
PassIdle == PassTask("idle", PassPending)

\* run_orientation_twopass_async: "waiting" for its gather, "done", "raised"
OrientationTask(t, d) == [task |-> t, data |-> d]
OrientationWaiting == OrientationTask("waiting", NoOrientation)

\* the project thread: "idle", "running" (the agent process spawned), "done",
\* "raised", and after a cancellation "cancelled_running", "cancelled"
ProjectTask(t, d, e) == [task |-> t, data |-> d, error |-> e]
ProjectIdle == ProjectTask("idle", NoProject, "null")

\* an extract_with_retry task: "idle" (not created), "waiting" (for a permit),
\* "running", "done"; attempt is the loop variable, calls the
\* number of agent processes it has spawned
DomTask(t, a, c, d, s) ==
    [task |-> t, attempt |-> a, calls |-> c, data |-> d, status |-> s]
DomIdle == DomTask("idle", 0, 0, NoData, NoStatus)

\* the fault of a gather that drops every result when one domain failed
ExtractionsAllOrNone ==
    [d \in Domains |->
       [data |-> IF \E e \in Domains : dom[e].status.status = "failed"
                 THEN NoData ELSE dom[d].data,
        status |-> dom[d].status]]

\* the domain_extractions dict handed to the merges
Extractions == [d \in Domains |-> [data |-> dom[d].data, status |-> dom[d].status]]
NoExtractions == [d \in Domains |-> [data |-> NoData, status |-> NoStatus]]

\* result["takeoff_spec"]: present only when output_takeoff is set
Takeoff(t) == [present |-> TRUE, spec |-> t]
NoTakeoff == [present |-> FALSE, spec |-> merge_to_takeoff_spec(NoProject, NoExtractions)]

\* The record run_extraction returns.  eval_name, pdf_path, source_pdfs and
\* document_map repeat the inputs and are left out.
RunResult(e, spec, tm, takeoff) ==
    [returned |-> TRUE, error |-> e, building_spec |-> spec, timing |-> tm,
     takeoff_spec |-> takeoff]
NoResult ==
    [returned |-> FALSE, error |-> "null", building_spec |-> NoSpec, timing |-> {},
     takeoff_spec |-> NoTakeoff]

\* the fault of an except branch that does not record the total time
ErrorResultNoTotal(e, tm) == RunResult(e, NoSpec, tm, NoTakeoff)

\* the except branch of run_extraction
ErrorResult(e, tm) == RunResult(e, NoSpec, tm \cup {"total"}, NoTakeoff)

\* the fault of a semaphore block that keeps its permit on leaving
SemaphoreExitLeaks(s) == s

\* async with EXTRACTION_SEMAPHORE: entering takes a permit, leaving returns it
SemaphoreEnter(s) == s - 1
SemaphoreExit(s) == s + 1

RECURSIVE ReleaseAll(_, _)
\* n tasks leave the semaphore block, one after the other
ReleaseAll(s, n) == IF n = 0 THEN s ELSE ReleaseAll(SemaphoreExit(s), n - 1)

(***************************************************************************)
(* run_extraction: discovery                                               *)
(***************************************************************************)

RunInit ==
    /\ pc = "start"
    /\ run_no = 1
    /\ sem = SemCapacity
    /\ cache \in InitialCaches
    /\ document_map = NoMap
    /\ disc_calls = 0
    /\ pass = [p \in Passes |-> PassIdle]
    /\ orientation = OrientationWaiting
    /\ project = ProjectIdle
    /\ dom = [d \in Domains |-> DomIdle]
    /\ timing = {}
    /\ result = NoResult

\* cache_data.get("cache_version", 1)
CacheVersion(c) ==
    IF c.doc.has_version THEN c.doc.cache_version ELSE DefaultCacheVersion

\* the fault of a version test that wants a newer cache
CacheVersionNewer(v) == v > CACHE_VERSION

\* cache_data.get("cache_version", 1) >= CACHE_VERSION
CacheVersionOk(v) == v >= CACHE_VERSION

\* the cache branch yields a document map: the file exists, json.load gives an
\* object, the version test passes and DocumentMap.model_validate succeeds
CacheUsable(c) ==
    /\ c.exists
    /\ c.parses
    /\ CacheVersionOk(CacheVersion(c))
    /\ MapValid(c.doc)

\* run_extraction returns record r
Return(r) ==
    /\ pc' = "done"
    /\ result' = r
    /\ timing' = r.timing

\* Step 0 and the cache branch of step 1, up to the discovery agent's spawn.
\* found: whether discover_source_pdfs finds a PDF.
StartRun ==
    /\ pc = "start"
    /\ \E found \in BOOLEAN :
         IF ~found
         THEN /\ Return(ErrorResult("FileNotFoundError", {"discover_pdfs"}))
              /\ UNCHANGED <<cache, document_map, disc_calls>>
         ELSE IF CacheUsable(cache)
         THEN /\ document_map' = DocumentMap(cache.doc)
              /\ cache' = CacheFile(DocumentMap(cache.doc))
              /\ timing' = {"discover_pdfs", "discovery"}
              /\ pc' = "stage1"
              /\ UNCHANGED <<disc_calls, result>>
         ELSE /\ disc_calls' = disc_calls + 1
              /\ timing' = {"discover_pdfs"}
              /\ pc' = "discovery"
              /\ UNCHANGED <<cache, document_map, result>>
    /\ UNCHANGED <<run_no, sem, pass, orientation, project, dom>>
    /\ UNCHANGED nonrunvars

\* the failing run_discovery was called inside the try block of the cache
\* branch (the cached version is too old), so that its RuntimeError is caught
\* by "except Exception" and run_discovery is called once more
DiscoveryInTry ==
    /\ cache.exists
    /\ cache.parses
    /\ ~CacheVersionOk(CacheVersion(cache))
    /\ disc_calls = 1

\* run_discovery raises RuntimeError e
DiscoveryRaise(e) ==
    IF DiscoveryInTry
    THEN /\ disc_calls' = disc_calls + 1
         /\ UNCHANGED <<pc, result, timing>>
    ELSE /\ Return(ErrorResult(e, timing))
         /\ UNCHANGED disc_calls

\* run_discovery from the agent's exit on, and the cache write after it
DiscoveryExit ==
    /\ pc = "discovery"
    /\ \/ \E kind \in FailureKinds :
            /\ DiscoveryRaise(kind)
            /\ UNCHANGED <<cache, document_map>>
       \/ \E reply \in DiscoveryReplies :
            LET json_data == [reply EXCEPT !.has_version = TRUE,
                                           !.cache_version = CACHE_VERSION]
            IN  IF MapValid(json_data)
                THEN /\ document_map' = DocumentMap(json_data)
                     /\ cache' = CacheFile(DocumentMap(json_data))
                     /\ timing' = timing \cup {"discovery"}
                     /\ pc' = "stage1"
                     /\ UNCHANGED <<result, disc_calls>>
                ELSE /\ DiscoveryRaise("invalid_response")
                     /\ UNCHANGED <<cache, document_map>>
    /\ UNCHANGED <<run_no, sem, pass, orientation, project, dom>>
    /\ UNCHANGED nonrunvars

(***************************************************************************)
(* run_extraction: orientation and project extraction                      *)
(***************************************************************************)

\* invoke_claude_agent_async enters the semaphore block and queues the thread
PassAcquire(p) ==
    /\ pc = "stage1"
    /\ pass[p].task = "idle"
    /\ sem > 0
    /\ sem' = SemaphoreEnter(sem)
    /\ pass' = [pass EXCEPT ![p].task = "holding"]
    /\ UNCHANGED <<pc, run_no, cache, document_map, disc_calls,
                   orientation, project, dom, timing, result>>
    /\ UNCHANGED nonrunvars

\* the thread spawns the agent process (subprocess.run); a thread whose task
\* was cancelled spawns it all the same
PassSpawn(p) ==
    /\ pass[p].task \in {"holding", "cancelled_queued"}
    /\ pass' = [pass EXCEPT ![p].task =
                  IF pass[p].task = "holding" THEN "running" ELSE "cancelled_running"]
    /\ UNCHANGED <<pc, run_no, sem, cache, document_map, disc_calls,
                   orientation, project, dom, timing, result>>
    /\ UNCHANGED nonrunvars

\* the agent process of a pass ends and the pass leaves the semaphore block
PassExit(p) ==
    /\ pass[p].task = "running"
    /\ sem' = SemaphoreExit(sem)
    /\ \/ \E kind \in FailureKinds : pass' = [pass EXCEPT ![p] = PassTask("done", PassError)]
       \/ \E reply \in PassReplies :
            pass' = [pass EXCEPT ![p] = PassTask("done", pass_result(reply))]
    /\ UNCHANGED <<pc, run_no, cache, document_map, disc_calls,
                   orientation, project, dom, timing, result>>
    /\ UNCHANGED nonrunvars

\* the agent process of a cancelled pass ends; nothing reads its reply
PassOrphanExit(p) ==
    /\ pass[p].task = "cancelled_running"
    /\ pass' = [pass EXCEPT ![p].task = "cancelled"]
    /\ UNCHANGED <<pc, run_no, sem, cache, document_map, disc_calls,
                   orientation, project, dom, timing, result>>
    /\ UNCHANGED nonrunvars

\* run_orientation_twopass_async after its gather of the two passes
OrientationJoin ==
    /\ pc = "stage1"
    /\ orientation.task = "waiting"
    /\ \A p \in Passes : pass[p].task = "done"
    /\ IF twopass_raises(pass[1].result, pass[2].result)
       THEN /\ orientation' = OrientationTask("raised", NoOrientation)
            /\ UNCHANGED timing
       ELSE /\ orientation' =
                 OrientationTask("done", twopass_result(pass[1].result, pass[2].result))
            /\ timing' = timing \cup {"orientation"}
    /\ UNCHANGED <<pc, run_no, sem, cache, document_map, disc_calls,
                   pass, project, dom, result>>
    /\ UNCHANGED nonrunvars

\* run_project_extraction up to the agent's spawn: ValueError when the router
\* gives it no page.  It calls invoke_claude_agent itself, outside the
\* semaphore block.
ProjectSpawn ==
    /\ pc = "stage1"
    /\ project.task = "idle"
    /\ project' =
         IF get_relevant_pages_for_domain("project", document_map) = {}
         THEN ProjectTask("raised", NoProject, "ValueError")
         ELSE ProjectTask("running", NoProject, "null")
    /\ UNCHANGED <<pc, run_no, sem, cache, document_map, disc_calls,
                   pass, orientation, dom, timing, result>>
    /\ UNCHANGED nonrunvars

\* run_project_extraction from the agent's exit on; run_extraction passes it
\* no orientation_data
ProjectExit ==
    /\ pc = "stage1"
    /\ project.task = "running"
    /\ \/ \E kind \in FailureKinds :
            /\ project' = ProjectTask("raised", NoProject, kind)
            /\ UNCHANGED timing
       \/ \E reply \in ProjectReplies :
            IF reply.valid
            THEN /\ project' =
                      ProjectTask("done", project_result(reply.project, NoOrientation), "null")
                 /\ timing' = timing \cup {"project"}
            ELSE /\ project' = ProjectTask("raised", NoProject, "invalid_response")
                 /\ UNCHANGED timing
    /\ UNCHANGED <<pc, run_no, sem, cache, document_map, disc_calls,
                   pass, orientation, dom, result>>
    /\ UNCHANGED nonrunvars

\* the agent process of the cancelled project task ends
ProjectOrphanExit ==
    /\ project.task = "cancelled_running"
    /\ project' = [project EXCEPT !.task = "cancelled"]
    /\ UNCHANGED <<pc, run_no, sem, cache, document_map, disc_calls,
                   pass, orientation, dom, timing, result>>
    /\ UNCHANGED nonrunvars

\* The gather of stage 1 ends with the first exception and asyncio.run cancels
\* the tasks still pending.  A cancelled pass leaves its semaphore block at
\* once (CancelledError), while its thread and the agent process go on.
CancelStage1 ==
    /\ pc = "stage1"
    /\ project.task = "raised" \/ orientation.task = "raised"
    /\ pc' = "abort"
    /\ sem' = ReleaseAll(sem, Cardinality({p \in Passes :
                                             pass[p].task \in {"holding", "running"}}))
    /\ pass' = [p \in Passes |->
                  CASE pass[p].task = "idle" -> PassTask("cancelled", PassPending)
                    [] pass[p].task = "holding" -> PassTask("cancelled_queued", PassPending)
                    [] pass[p].task = "running" -> PassTask("cancelled_running", PassPending)
                    [] OTHER -> pass[p]]
    /\ orientation' = IF orientation.task = "waiting"
                      THEN OrientationTask("cancelled", NoOrientation) ELSE orientation
    /\ project' = CASE project.task = "idle" -> ProjectTask("cancelled", NoProject, "null")
                    [] project.task = "running" ->
                         ProjectTask("cancelled_running", NoProject, "null")
                    [] OTHER -> project
    /\ UNCHANGED <<run_no, cache, document_map, disc_calls, dom, timing, result>>
    /\ UNCHANGED nonrunvars

\* asyncio.run has joined the executor threads, the exception reaches the
\* except branch of run_extraction
AbortReturn ==
    /\ pc = "abort"
    /\ \A p \in Passes : pass[p].task \in {"done", "cancelled"}
    /\ project.task \in {"done", "raised", "cancelled"}
    /\ \E e \in (IF project.task = "raised" THEN {project.error} ELSE {})
               \cup (IF orientation.task = "raised" THEN {"TypeError"} ELSE {}) :
         Return(ErrorResult(e, timing))
    /\ UNCHANGED <<run_no, sem, cache, document_map, disc_calls,
                   pass, orientation, project, dom>>
    /\ UNCHANGED nonrunvars

\* the fault of a stage 1 that returns without waiting for the orientation
Stage1ReturnedEarly == project.task = "done"

\* asyncio.run(_run_orientation_and_project()) returns once both coroutines of
\* its gather have returned
Stage1Returned == orientation.task = "done" /\ project.task = "done"

\* Stage 1 returned both results; run_parallel_extraction builds the four
\* prompts and creates the four tasks
JoinStage1 ==
    /\ pc = "stage1"
    /\ Stage1Returned
    /\ IF \E d \in Domains : build_domain_prompt_raises(d, document_map)
       THEN /\ Return(ErrorResult("IndexError", timing))
            /\ UNCHANGED dom
       ELSE /\ pc' = "fanout"
            /\ dom' = [d \in Domains |-> DomTask("waiting", 0, 0, NoData, NoStatus)]
            /\ UNCHANGED <<timing, result>>
    /\ UNCHANGED <<run_no, sem, cache, document_map, disc_calls,
                   pass, orientation, project>>
    /\ UNCHANGED nonrunvars

(***************************************************************************)
(* run_extraction: the domain fan-out and the merge                        *)
(***************************************************************************)

\* invoke_claude_agent_async enters the semaphore block and its thread spawns
\* the agent process
DomStart(d) ==
    /\ pc = "fanout"
    /\ dom[d].task = "waiting"
    /\ sem > 0
    /\ sem' = SemaphoreEnter(sem)
    /\ dom' = [dom EXCEPT ![d].task = "running", ![d].calls = @ + 1]
    /\ UNCHANGED <<pc, run_no, cache, document_map, disc_calls,
                   pass, orientation, project, timing, result>>
    /\ UNCHANGED nonrunvars

\* the fault of an extract_with_retry that gives up after its first attempt
fail_at_once(d, t, e) ==
    [t EXCEPT !.task = "done", !.data = NoData,
              !.status = ExtractionStatus(d, "failed", e, t.attempt, 0)]

\* extract_with_retry after an attempt that raised: sleep and go round the
\* loop after the first attempt, give up after the last
retry_or_fail(d, t, e) ==
    IF t.attempt + 1 < MaxAttempts
    THEN [t EXCEPT !.task = "waiting", !.attempt = @ + 1]
    ELSE [t EXCEPT !.task = "done", !.data = NoData,
                   !.status = ExtractionStatus(d, "failed", e, 1, 0)]

\* extract_with_retry after an attempt that returned a JSON object
succeed(d, t, data) ==
    [t EXCEPT !.task = "done", !.data = data,
              !.status = ExtractionStatus(d, "success", "null", t.attempt,
                                          ItemsExtracted(data))]

\* the agent process of a domain ends, the task leaves the semaphore block and
\* extract_with_retry goes on to its return or to its second attempt
DomExit(d) ==
    /\ dom[d].task = "running"
    /\ sem' = SemaphoreExit(sem)
    /\ \/ \E kind \in FailureKinds :
            dom' = [dom EXCEPT ![d] = retry_or_fail(d, dom[d], kind)]
       \/ \E data \in DomainReplies(d) :
            dom' = [dom EXCEPT ![d] = succeed(d, dom[d], data)]
    /\ UNCHANGED <<pc, run_no, cache, document_map, disc_calls,
                   pass, orientation, project, timing, result>>
    /\ UNCHANGED nonrunvars

\* The gather of run_parallel_extraction returned; steps 5 and 6 and the
\* return.  output_takeoff is the parameter of run_extraction, read here only.
MergeAndReturn ==
    /\ pc = "fanout"
    /\ \A d \in Domains : dom[d].task = "done"
    /\ IF merge_raises(Extractions)
       THEN Return(ErrorResult("ValidationError", timing \cup {"parallel_extraction"}))
       ELSE \E output_takeoff \in BOOLEAN :
              LET takeoff == merge_to_takeoff_spec(project.data, Extractions)
              IN  Return(RunResult("null",
                                   BuildingSpec(takeoff, LegacyStatus(Extractions),
                                                LegacyConflicts(Extractions)),
                                   timing \cup {"parallel_extraction", "merge_transform",
                                                "total"},
                                   IF output_takeoff THEN Takeoff(takeoff) ELSE NoTakeoff))
    /\ UNCHANGED <<run_no, sem, cache, document_map, disc_calls,
                   pass, orientation, project, dom>>
    /\ UNCHANGED nonrunvars

\* the caller calls run_extraction again on the same evaluation directory
Restart ==
    /\ pc = "done"
    /\ run_no < MaxRuns
    /\ run_no' = run_no + 1
    /\ pc' = "start"
    /\ document_map' = NoMap
    /\ disc_calls' = 0
    /\ pass' = [p \in Passes |-> PassIdle]
    /\ orientation' = OrientationWaiting
    /\ project' = ProjectIdle
    /\ dom' = [d \in Domains |-> DomIdle]
    /\ timing' = {}
    /\ result' = NoResult
    /\ UNCHANGED <<sem, cache>>
    /\ UNCHANGED nonrunvars

Next ==
    \/ StartRun
    \/ DiscoveryExit
    \/ \E p \in Passes : PassAcquire(p)
    \/ \E p \in Passes : PassSpawn(p)
    \/ \E p \in Passes : PassExit(p)
    \/ \E p \in Passes : PassOrphanExit(p)
    \/ OrientationJoin
    \/ ProjectSpawn
    \/ ProjectExit
    \/ ProjectOrphanExit
    \/ CancelStage1
    \/ AbortReturn
    \/ JoinStage1
    \/ \E d \in Domains : DomStart(d)
    \/ \E d \in Domains : DomExit(d)
    \/ MergeAndReturn
    \/ Restart

(***************************************************************************)
(* The iteration store (verifier/persistence.py)                           *)
(***************************************************************************)

\* bound: the saves made in one behaviour
MaxSaves == 3

\* bound: the largest iteration number a caller passes explicitly
MaxDirect == 3

\* the callers that save results of the one evaluation concurrently
Savers == {1, 2}

\* what a caller saves: the extracted data, the f1 of its metrics (in
\* hundredths) and the HTML report ("absent" for html_report=None).  The
\* timestamp written into eval-results.json is left out.
SaveInputs ==
    {[extracted |-> "a", f1 |-> 50, report |-> "ra"],
     [extracted |-> "b", f1 |-> 100, report |-> "absent"],
     [extracted |-> "c", f1 |-> 0, report |-> "absent"]}

\* the decimal digits of n >= 0, most significant first
RECURSIVE Digits(_)
Digits(n) == IF n < 10 THEN <<n>> ELSE Append(Digits(n \div 10), n % 10)

\* zero-padding to width w
RECURSIVE ZeroPad(_, _)
ZeroPad(ds, w) == IF Len(ds) >= w THEN ds ELSE ZeroPad(<<0>> \o ds, w)

\* the width of the format iteration-{iteration:03d}
IterationWidth == 3

\* get_iteration_dir: the digits of the directory name after "iteration-"
IterationName(iteration) == ZeroPad(Digits(iteration), IterationWidth)

\* int(match.group(1))
RECURSIVE ParseInt(_)
ParseInt(ds) ==
    IF ds = <<>> THEN 0
    ELSE 10 * ParseInt(SubSeq(ds, 1, Len(ds) - 1)) + ds[Len(ds)]

\* an iteration directory: its name and its three files
IterationDir(name, extracted, results, report) ==
    [name |-> name, extracted |-> extracted, eval_results |-> results, report |-> report]

\* eval-results.json: the metrics and the iteration number written into it
EvalResults(f1, iteration) == [f1 |-> f1, iteration |-> iteration]

\* aggregate.json; best_iteration 0 stands for None
Aggregate(ex, its, bf, bi) ==
    [exists |-> ex, iterations |-> its, best_f1 |-> bf, best_iteration |-> bi]
NoAggregate == Aggregate(FALSE, <<>>, 0, 0)

HistoryEntry(iteration, f1, trend) == [iteration |-> iteration, f1 |-> f1, trend |-> trend]

\* a caller: "idle", or "numbered" once it holds the number get_next_iteration
\* gave it
Saver(t, n) == [task |-> t, iteration |-> n]

StoreInit ==
    /\ results_dir \in BOOLEAN
    /\ iterations = {}
    /\ aggregate = NoAggregate
    /\ saver = [s \in Savers |-> Saver("idle", 0)]

\* the fault of a scan that counts the directories
count_step(max_iteration, iteration) == max_iteration + 1

\* max(max_iteration, iteration)
max_iteration_step(max_iteration, iteration) ==
    IF iteration > max_iteration THEN iteration ELSE max_iteration

\* the loop of get_next_iteration over the entries of the results directory
\* that are directories named iteration-<digits>; aggregate.json is a file
RECURSIVE ScanIterations(_, _)
ScanIterations(items, max_iteration) ==
    IF items = {} THEN max_iteration
    ELSE LET item == CHOOSE x \in items : TRUE
         IN  ScanIterations(items \ {item},
                            max_iteration_step(max_iteration, ParseInt(item.name)))

\* EvalStore.get_next_iteration
get_next_iteration ==
    IF ~results_dir THEN 1 ELSE ScanIterations(iterations, 0) + 1

\* the fault of a best update that wants a strictly better f1
is_better(f1, best_f1) == f1 > best_f1

\* history_entry["f1"] >= aggregate["best_f1"]
is_best(f1, best_f1) == f1 >= best_f1

\* _update_aggregate
update_aggregate(agg, iteration, f1) ==
    LET trend == IF agg.iterations # <<>>
                 THEN f1 - agg.iterations[Len(agg.iterations)].f1 ELSE 0
        best == is_best(f1, agg.best_f1)
    IN  Aggregate(TRUE, Append(agg.iterations, HistoryEntry(iteration, f1, trend)),
                  IF best THEN f1 ELSE agg.best_f1,
                  IF best THEN iteration ELSE agg.best_iteration)

\* the iteration directories after save_iteration: mkdir(parents=True,
\* exist_ok=True), then the files written over whatever is there; the report
\* is written only when one is given
write_iteration(dirs, iteration, inp) ==
    LET name == IterationName(iteration)
        old == {d \in dirs : d.name = name}
        kept_report == IF old = {} THEN "absent" ELSE (CHOOSE d \in old : TRUE).report
    IN  (dirs \ old) \cup
        {IterationDir(name, inp.extracted, EvalResults(inp.f1, iteration),
                      IF inp.report # "absent" THEN inp.report ELSE kept_report)}

\* EvalStore.save_iteration
save_iteration(iteration, inp) ==
    /\ results_dir' = TRUE
    /\ iterations' = write_iteration(iterations, iteration, inp)
    /\ aggregate' = update_aggregate(aggregate, iteration, inp.f1)

\* a caller asks for the next number (save_evaluation with iteration=None, the
\* verifier commands)
SaverNumber(s) ==
    /\ saver[s].task = "idle"
    /\ Len(aggregate.iterations) < MaxSaves
    /\ saver' = [saver EXCEPT ![s] = Saver("numbered", get_next_iteration)]
    /\ UNCHANGED <<results_dir, iterations, aggregate>>
    /\ UNCHANGED nonstorevars

\* the caller saves under the number it was given
SaverSave(s) ==
    /\ saver[s].task = "numbered"
    /\ Len(aggregate.iterations) < MaxSaves
    /\ \E inp \in SaveInputs : save_iteration(saver[s].iteration, inp)
    /\ saver' = [saver EXCEPT ![s] = Saver("idle", 0)]
    /\ UNCHANGED nonstorevars

\* a caller saves under a number of its own (save_evaluation with iteration=k,
\* or save_iteration called directly)
SaverSaveDirect(s) ==
    /\ saver[s].task = "idle"
    /\ Len(aggregate.iterations) < MaxSaves
    /\ \E k \in 1..MaxDirect, inp \in SaveInputs : save_iteration(k, inp)
    /\ UNCHANGED saver
    /\ UNCHANGED nonstorevars

StoreNext ==
    \/ \E s \in Savers : SaverNumber(s)
    \/ \E s \in Savers : SaverSave(s)
    \/ \E s \in Savers : SaverSaveDirect(s)

(***************************************************************************)
(* The improvement loop: apply_proposal, snapshots and rollback             *)
(***************************************************************************)

\* bound: the largest iteration number an improvement run may take
MaxIter == 3

\* the evaluations of manifest.yaml, in its order
EvalIds == <<"e1", "e2">>
EvalSet == {EvalIds[i] : i \in 1..Len(EvalIds)}

\* An instruction file .claude/instructions/<agent>/<stem>.md: the directory
\* name and the file stem, each as its segments between hyphens.
InstructionFile(agent, stem) == [agent |-> agent, stem |-> stem]
FileInstructions == InstructionFile(<<"project", "extractor">>, <<"instructions">>)
FileFieldGuide == InstructionFile(<<"project", "extractor">>, <<"field", "guide">>)
FileMissing == InstructionFile(<<"zones", "extractor">>, <<"instructions">>)
InstructionFiles == {FileInstructions, FileFieldGuide, FileMissing}

\* A version string X.Y.Z: its three digit strings.
VersionString(x, y, z) == <<x, y, z>>
NoVersion == <<>>

\* A line of an instruction file: a "# " heading, other text, or blank, and
\* the first token [Vv]<digits>.<digits>.<digits> in it (NoVersion for none).
Line(kind, version) == [kind |-> kind, version |-> version]
BlankLine == Line("blank", NoVersion)
TextLine == Line("text", NoVersion)

\* the first 10 lines are the header
HeaderLines == 10

\* An instruction file: whether it exists, and its lines.
FileContent(lines) == [exists |-> TRUE, lines |-> lines]
NoFile == [exists |-> FALSE, lines |-> <<>>]

\* the default of parse_instruction_version
DefaultVersion == VersionString(<<1>>, <<0>>, <<0>>)

\* parse_instruction_version: the first version token of the first 10 lines
parse_instruction_version(lines) ==
    LET header == {i \in 1..Len(lines) : i <= HeaderLines /\ lines[i].version # NoVersion}
    IN  IF header = {} THEN DefaultVersion
        ELSE lines[CHOOSE i \in header : \A j \in header : i <= j].version

\* bump_version, for the bump types get_bump_type gives
bump_version(current, bump_type) ==
    LET major == ParseInt(current[1])
        minor == ParseInt(current[2])
        patch == ParseInt(current[3])
    IN  CASE bump_type = "major" -> VersionString(Digits(major + 1), <<0>>, <<0>>)
          [] bump_type = "minor" -> VersionString(Digits(major), Digits(minor + 1), <<0>>)
          [] OTHER -> VersionString(Digits(major), Digits(minor), Digits(patch + 1))

\* get_bump_type
get_bump_type(change_type) ==
    CASE change_type \in {"add_section", "modify_section"} -> "minor"
      [] change_type \in {"clarify_rule", "fix_typo"} -> "patch"
      [] change_type = "restructure" -> "major"
      [] OTHER -> "patch"

\* apply_version_to_content: the first version token of the whole content is
\* replaced; without one the first "# " heading gets the version; without
\* either the content stays as it is
apply_version_to_content(lines, new_version) ==
    LET versioned == {i \in 1..Len(lines) : lines[i].version # NoVersion}
        headings == {i \in 1..Len(lines) : lines[i].kind = "heading"}
        first(set) == CHOOSE i \in set : \A j \in set : i <= j
    IN  IF versioned # {}
        THEN [lines EXCEPT ![first(versioned)].version = new_version]
        ELSE IF headings # {}
        THEN [lines EXCEPT ![first(headings)].version = new_version]
        ELSE lines

\* content.rstrip(): the lines without the blank lines at the end
RECURSIVE rstrip(_)
rstrip(lines) ==
    IF lines # <<>> /\ lines[Len(lines)].kind = "blank"
    THEN rstrip(SubSeq(lines, 1, Len(lines) - 1))
    ELSE lines

\* the change types a proposal may carry; "reword" stands for any other
ChangeTypes ==
    {"add_section", "modify_section", "clarify_rule", "fix_typo", "restructure", "reword"}

\* the proposed_change texts drawn: a line of text, and a line of text that
\* holds a version token
ProposedChanges ==
    {<<TextLine>>, <<Line("text", VersionString(<<9>>, <<9>>, <<9>>))>>}

\* InstructionProposal
Proposal(target_file, change_type, proposed_change) ==
    [target_file |-> target_file, change_type |-> change_type,
     proposed_change |-> proposed_change]
Proposals ==
    {Proposal(f, t, c) : f \in InstructionFiles, t \in ChangeTypes, c \in ProposedChanges}

\* the contents an instruction file may start with: a heading with a version;
\* a heading with a version written with a leading zero; a heading without a
\* version; no heading and no version; and a heading without a version
\* followed, after the header, by a line that holds a version token
TenLines == [i \in 1..HeaderLines |-> IF i = 1 THEN Line("heading", NoVersion) ELSE TextLine]
InitialContents ==
    {<<Line("heading", VersionString(<<1>>, <<2>>, <<3>>)), TextLine>>,
     <<Line("heading", VersionString(<<0, 1>>, <<9>>, <<9>>)), BlankLine>>,
     <<Line("heading", NoVersion), TextLine>>,
     <<Line("text", NoVersion)>>,
     Append(TenLines, Line("text", VersionString(<<2>>, <<0>>, <<0>>)))}

\* A snapshot file of instruction-changes/: its name
\* <agent>-<stem>-v<version>.md as the hyphen-separated segments before "-v"
\* and the version, its content, and the file it was copied from.
Snapshot(segments, version, lines, origin) ==
    [segments |-> segments, version |-> version, lines |-> lines, origin |-> origin]

\* An iteration directory of an evaluation's results: whether it exists, the
\* snapshots of its instruction-changes directory, and whether it holds the
\* eval-results.json that save_iteration writes.
IterDir(ex, snaps, res) == [exists |-> ex, snapshots |-> snaps, results |-> res]
NoIterDir == IterDir(FALSE, {}, FALSE)

\* save_instruction_snapshot(target_path, iteration_dir, version):
\* shutil.copy writes over a snapshot of the same name
save_instruction_snapshot(target, dir, version) ==
    LET segments == target.agent \o target.stem
        same == {x \in dir.snapshots : x.segments = segments /\ x.version = version}
    IN  IterDir(TRUE, (dir.snapshots \ same)
                      \cup {Snapshot(segments, version, files[target].lines, target)},
                dir.results)

\* apply_proposal, the new content of the target file
new_content(proposal, current_version) ==
    apply_version_to_content(
        rstrip(files[proposal.target_file].lines) \o <<BlankLine>> \o proposal.proposed_change,
        bump_version(current_version, get_bump_type(proposal.change_type)))

\* improvement get_latest_iteration: the largest number parsed from the
\* names of the iteration directories of an evaluation, 0 without any
get_latest_iteration(e) ==
    LET numbers == {ParseInt(IterationName(n)) : n \in {k \in DOMAIN tree[e] : tree[e][k].exists}}
    IN  IF numbers = {} THEN 0 ELSE CHOOSE m \in numbers : \A k \in numbers : k <= m

\* improvement get_next_iteration: max across all evals + 1
improve_next_iteration ==
    (CHOOSE m \in {get_latest_iteration(e) : e \in EvalSet} :
        \A e \in EvalSet : get_latest_iteration(e) <= m) + 1

\* what the improve and rollback commands report
ImproveOut(error, iteration, proposal, old_version, new_version) ==
    [cmd |-> "improve", error |-> error, iteration |-> iteration,
     target_file |-> proposal.target_file, change_type |-> proposal.change_type,
     old_version |-> old_version, new_version |-> new_version, restored |-> {}]
RollbackOut(iteration, restored) ==
    [cmd |-> "rollback", error |-> "null", iteration |-> iteration,
     target_file |-> FileMissing, change_type |-> "null",
     old_version |-> NoVersion, new_version |-> NoVersion, restored |-> restored]
NoOut ==
    [cmd |-> "null", error |-> "null", iteration |-> 0,
     target_file |-> FileMissing, change_type |-> "null",
     old_version |-> NoVersion, new_version |-> NoVersion, restored |-> {}]

ImproveInit ==
    /\ files \in {[f \in InstructionFiles |->
                     IF f = FileInstructions THEN FileContent(c)
                     ELSE IF f = FileFieldGuide THEN FileContent(d)
                     ELSE NoFile] : c \in InitialContents,
                                    d \in {x \in InitialContents : Len(x) = 2}}
    /\ tree \in {[e \in EvalSet |-> [n \in 1..MaxIter |->
                     IF n = 1 /\ e \in had THEN IterDir(TRUE, {}, TRUE) ELSE NoIterDir]] :
                   had \in {{}, {EvalIds[1]}}}
    /\ cli_out = NoOut

\* the largest iteration number among the iteration directories of a results
\* directory, 0 without any
latest_in(dirs) ==
    LET numbers == {n \in DOMAIN dirs : dirs[n].exists}
    IN  IF numbers = {} THEN 0 ELSE CHOOSE m \in numbers : \A k \in numbers : k <= m

\* EvalStore.get_next_iteration on the results directory of an evaluation
store_next_iteration(dirs) == latest_in(dirs) + 1

\* load_eval_results: the evaluations whose latest iteration directory holds
\* an eval-results.json
load_eval_results ==
    {e \in EvalSet : /\ get_latest_iteration(e) # 0
                     /\ tree[e][get_latest_iteration(e)].results}

\* verify-all --save on the results trees t: every evaluation for which an
\* extracted.json and a ground truth were found gets its results saved in the
\* directory of the iteration EvalStore.get_next_iteration gives
verify_all_save(t, found) ==
    [e \in EvalSet |->
       IF e \in found
       THEN [t[e] EXCEPT ![store_next_iteration(t[e])] =
               IterDir(TRUE, t[e][store_next_iteration(t[e])].snapshots, TRUE)]
       ELSE t[e]]

\* the improve command with an accepted proposal: the results are loaded
\* (step 1), the next iteration number is taken and the iteration directories
\* are created, apply_proposal runs (step 5), and verify-all --save verifies
\* the evaluations it finds extraction results for (step 6); without any the
\* verification fails and the command exits
ImproveApply ==
    /\ load_eval_results # {}
    /\ improve_next_iteration <= MaxIter
    /\ \E proposal \in Proposals, found \in SUBSET EvalSet :
         LET next_iter == improve_next_iteration
             target == proposal.target_file
             current_version == parse_instruction_version(files[target].lines)
             snapped == [e \in EvalSet |->
                           [tree[e] EXCEPT ![next_iter] =
                              save_instruction_snapshot(target, tree[e][next_iter],
                                                        current_version)]]
         IN  IF ~files[target].exists
             THEN /\ found = {}
                  /\ tree' = [e \in EvalSet |->
                                [tree[e] EXCEPT ![next_iter].exists = TRUE]]
                  /\ cli_out' = ImproveOut("FileNotFoundError", next_iter, proposal,
                                           NoVersion, NoVersion)
                  /\ UNCHANGED files
             ELSE /\ \A e \in found : store_next_iteration(snapped[e]) <= MaxIter
                  /\ tree' = verify_all_save(snapped, found)
                  /\ files' = [files EXCEPT ![target] =
                                 FileContent(new_content(proposal, current_version))]
                  /\ cli_out' = ImproveOut(IF found = {} THEN "VerificationFailed"
                                           ELSE "null",
                                           next_iter, proposal, current_version,
                                           bump_version(current_version,
                                                        get_bump_type(proposal.change_type)))
    /\ UNCHANGED nonimpvars

\* the improve command when load_eval_results finds nothing: it exits at
\* step 1
ImproveNoResults ==
    /\ load_eval_results = {}
    /\ cli_out' = [NoOut EXCEPT !.cmd = "improve", !.error = "NoResults"]
    /\ UNCHANGED <<files, tree>>
    /\ UNCHANGED nonimpvars

\* the verify-all --save command run by hand
VerifyAll ==
    /\ \E found \in SUBSET EvalSet :
         /\ found # {}
         /\ \A e \in found : store_next_iteration(tree[e]) <= MaxIter
         /\ tree' = verify_all_save(tree, found)
    /\ cli_out' = [NoOut EXCEPT !.cmd = "verify-all"]
    /\ UNCHANGED files
    /\ UNCHANGED nonimpvars

\* the rollback command's reading of a snapshot name: rsplit("-v", 1), then
\* rsplit("-", 1) of what stands before the version
snapshot_target(snapshot) ==
    InstructionFile(SubSeq(snapshot.segments, 1, Len(snapshot.segments) - 1),
                    <<snapshot.segments[Len(snapshot.segments)]>>)

\* the rollback command for iteration n: the snapshots of the first
\* evaluation that has an instruction-changes directory are copied to the
\* paths their names give, where a file exists there
Rollback(n) ==
    LET with_changes == {i \in 1..Len(EvalIds) : tree[EvalIds[i]][n].snapshots # {}}
        snapshots == IF with_changes = {} THEN {}
                     ELSE tree[EvalIds[CHOOSE i \in with_changes :
                                         \A j \in with_changes : i <= j]][n].snapshots
        restorable == {x \in snapshots :
                         /\ snapshot_target(x) \in InstructionFiles
                         /\ files[snapshot_target(x)].exists}
    IN  /\ files' = [f \in InstructionFiles |->
                       IF \E x \in restorable : snapshot_target(x) = f
                       THEN FileContent((CHOOSE x \in restorable : snapshot_target(x) = f).lines)
                       ELSE files[f]]
        /\ cli_out' = RollbackOut(n, {snapshot_target(x) : x \in restorable})
        /\ UNCHANGED tree
        /\ UNCHANGED nonimpvars

ImproveNext ==
    \/ ImproveApply
    \/ ImproveNoResults
    \/ VerifyAll
    \/ \E n \in 1..MaxIter : Rollback(n)

(***************************************************************************)
(* verify_orientation_passes on drawn pass results                         *)
(***************************************************************************)

\* The bearings a pass may reply with, in tenths of a degree: whole degrees
\* (for which the average and its rounding to one decimal are exact), in and
\* out of [0, 360), and a reply that is no number.
PassBearings ==
    {Num(10 * d) : d \in {0, 20, 21, 69, 70, 110, 111, 159, 160, 180, 350, 359,
                          360, 370, 720, -10}}
    \cup {NotNum}

\* the confidences a pass may reply with; "certain" stands for any word
\* conf_rank does not know
PassConfidences == {"high", "medium", "low", "unknown", "certain"}

\* the dicts run_orientation_pass_async may return
PassResults ==
    {PassError} \cup {PassSuccess(o, c) : o \in PassBearings, c \in PassConfidences}

NotFused == [done |-> FALSE, result |-> VerificationRaised]

FuseInit ==
    /\ fuse_in \in PassResults \X PassResults
    /\ fused = NotFused

\* verify_orientation_passes(pass1, pass2) is called
Fuse ==
    /\ ~fused.done
    /\ fused' = [done |-> TRUE,
                 result |-> verify_orientation_passes(fuse_in[1], fuse_in[2])]
    /\ UNCHANGED fuse_in
    /\ UNCHANGED nonfusevars

\* no call of verify_orientation_passes outside run_extraction
FuseIdle ==
    /\ fuse_in = <<PassError, PassError>>
    /\ fused = NotFused

(***************************************************************************)
(* DocumentMap validation on drawn document maps                           *)
(***************************************************************************)

\* bound: the largest page number and page count a drawn document map holds
MaxPages == 2

\* the pages drawn: page numbers from 0, with a page type of the enum or not
DrawnPages ==
    {RawPage(n, t, "absent", {}) : n \in 0..(MaxPages + 1), t \in {"schedule", "poster"}}

\* the page lists drawn, of up to MaxPages pages
DrawnPageLists ==
    UNION {[1..k -> DrawnPages] : k \in 0..MaxPages}

\* the document maps drawn, as the discovery agent replies with them (where
\* run_discovery sets the version) or as the cache file holds them
DrawnMaps ==
    {RawMap(TRUE, CACHE_VERSION, tp, pgs) : tp \in 0..MaxPages, pgs \in DrawnPageLists}

DiscInput(from, doc) == [from |-> from, doc |-> doc]
DiscOutput(st, m) == [state |-> st, map |-> m]

DiscInit ==
    /\ disc_in \in {DiscInput(from, doc) : from \in {"agent", "cache"}, doc \in DrawnMaps}
    /\ disc_out = DiscOutput("pending", NoMap)

\* step 1 of run_extraction on the drawn map: DocumentMap.model_validate in
\* run_discovery or in the cache branch; the evaluation proceeds with the
\* validated map
Discover ==
    /\ disc_out.state = "pending"
    /\ disc_out' = IF (disc_in.from = "cache" /\ CacheUsable(CacheFile(disc_in.doc)))
                      \/ (disc_in.from = "agent" /\ MapValid(disc_in.doc))
                   THEN DiscOutput("proceeds", DocumentMap(disc_in.doc))
                   ELSE DiscOutput("rejected", NoMap)
    /\ UNCHANGED disc_in
    /\ UNCHANGED nondiscvars

\* no document map under validation
DiscIdle ==
    /\ disc_in = DiscInput("agent", NoMap)
    /\ disc_out = DiscOutput("pending", NoMap)

(***************************************************************************)
(* deduplicate_by_name on drawn item lists                                 *)
(***************************************************************************)

\* bound: the longest item list drawn
MaxItems == 4

\* the items drawn: two names and no name (None), two values
DrawnItems == {Item(n, x) : n \in {"null", "A", "B"}, x \in 1..2}

DrawnItemLists == UNION {[1..k -> DrawnItems] : k \in 0..MaxItems}

NotDeduped == [done |-> FALSE, kept |-> <<>>, conflicts |-> <<>>]

DedupInit ==
    /\ dedup_in \in {[items |-> l, source |-> "zones"] : l \in DrawnItemLists}
    /\ dedup_out = NotDeduped

\* one call of deduplicate_by_name
Dedup ==
    /\ ~dedup_out.done
    /\ LET r == deduplicate_by_name(dedup_in.items, dedup_in.source)
       IN  dedup_out' = [done |-> TRUE, kept |-> r.kept, conflicts |-> r.conflicts]
    /\ UNCHANGED dedup_in
    /\ UNCHANGED nondedupvars

\* no deduplication under way
DedupIdle ==
    /\ dedup_in = [items |-> <<>>, source |-> "zones"]
    /\ dedup_out = NotDeduped

(***************************************************************************)
(* The field comparator (verifier/compare.py) and the metrics              *)
(***************************************************************************)

\* A string is the sequence of its characters.
Space == " "
TrailingPunctuation == {".", ",", ";", ":"}

\* str.lower(), for the letters the drawn strings hold
Lower(c) ==
    CASE c = "O" -> "o"
      [] c = "W" -> "w"
      [] c = "S" -> "s"
      [] c = "J" -> "j"
      [] OTHER -> c

\* str.strip()
RECURSIVE strip(_)
strip(s) ==
    IF s = <<>> THEN s
    ELSE IF s[1] = Space THEN strip(Tail(s))
    ELSE IF s[Len(s)] = Space THEN strip(SubSeq(s, 1, Len(s) - 1))
    ELSE s

\* re.sub(r'[.,;:]+$', '', text)
RECURSIVE strip_trailing_punctuation(_)
strip_trailing_punctuation(s) ==
    IF s # <<>> /\ s[Len(s)] \in TrailingPunctuation
    THEN strip_trailing_punctuation(SubSeq(s, 1, Len(s) - 1))
    ELSE s

\* the first position from i on that holds no space (Len + 1 when none)
RECURSIVE SkipSpaces(_, _)
SkipSpaces(s, i) ==
    IF i <= Len(s) /\ s[i] = Space THEN SkipSpaces(s, i + 1) ELSE i

\* the first position from i on that holds ")" (0 when none)
RECURSIVE FindClose(_, _)
FindClose(s, i) ==
    IF i > Len(s) THEN 0 ELSE IF s[i] = ")" THEN i ELSE FindClose(s, i + 1)

\* re.sub(r'\s*\([^)]*\)\s*', '', text), scanning from position i
RECURSIVE strip_parenthetical(_, _)
strip_parenthetical(s, i) ==
    IF i > Len(s) THEN <<>>
    ELSE LET open == SkipSpaces(s, i)
             close == IF open <= Len(s) /\ s[open] = "(" THEN FindClose(s, open + 1)
                      ELSE 0
         IN  IF close # 0 THEN strip_parenthetical(s, SkipSpaces(s, close + 1))
             ELSE <<s[i]>> \o strip_parenthetical(s, i + 1)

\* re.sub(r'\s+', ' ', text)
RECURSIVE collapse_spaces(_)
collapse_spaces(s) ==
    IF Len(s) < 2 THEN s
    ELSE IF s[1] = Space /\ s[2] = Space THEN collapse_spaces(Tail(s))
    ELSE <<s[1]>> \o collapse_spaces(Tail(s))

\* A path token: a key, with the list index written after it ("walls[0]"), or
\* with "[*]" in a pattern.
NoIndex == -1
Star == -2
Tok(k) == [k |-> k, i |-> NoIndex]
TokI(k, i) == [k |-> k, i |-> i]

\* 'name' in field_path or 'window' in field_path or 'wall' in field_path,
\* for the keys of the drawn records
NameLike(path) ==
    \E j \in 1..Len(path) : path[j].k \in {"name", "walls", "window", "wall"}

\* normalize_text(text, field_path)
normalize_text(text, field_path) ==
    LET lowered == [j \in 1..Len(strip(text)) |-> Lower(strip(text)[j])]
        depunct == strip_trailing_punctuation(lowered)
        deparen == IF NameLike(field_path) THEN strip_parenthetical(depunct, 1)
                   ELSE depunct
    IN  strip(collapse_spaces(deparen))

\* A JSON scalar: None, a number (whole here), a string or a boolean.
Null == [t |-> "null", n |-> 0, s |-> <<>>]
Number(n) == [t |-> "num", n |-> n, s |-> <<>>]
Str(s) == [t |-> "str", n |-> 0, s |-> s]
Bool(b) == [t |-> "bool", n |-> IF b THEN 1 ELSE 0, s |-> <<>>]

\* isinstance(x, (int, float)): bool is a subclass of int
IsNumeric(x) == x.t \in {"num", "bool"}

\* the default tolerance of compare_fields: 0.5 percent, written in tenths of
\* a percent; the absolute tolerance 0.01 admits no difference of whole numbers
TolPerMille == 5

\* values_match, both numeric
numbers_match(expected, actual) ==
    LET abs_diff == Abs(expected - actual)
    IN  \/ abs_diff = 0
        \/ expected # 0 /\ abs_diff * 1000 <= TolPerMille * Abs(expected)

DigitChars == <<"0", "1", "2", "3", "4", "5", "6", "7", "8", "9">>
IsDigits(s) ==
    s # <<>> /\ \A j \in 1..Len(s) : \E d \in 1..10 : DigitChars[d] = s[j]
DigitsOf(s) == [j \in 1..Len(s) |-> (CHOOSE d \in 1..10 : DigitChars[d] = s[j]) - 1]

\* float(actual) of a string: a number for a string of digits (spaces around
\* it allowed), ValueError otherwise
FloatParses(s) == IsDigits(strip(s))
Float(s) == ParseInt(DigitsOf(strip(s)))

\* str(actual) of a number or a boolean
StrOf(x) ==
    IF x.t = "bool" THEN (IF x.n = 1 THEN <<"T", "r", "u", "e">>
                          ELSE <<"F", "a", "l", "s", "e">>)
    ELSE [j \in 1..Len(Digits(x.n)) |-> DigitChars[Digits(x.n)[j] + 1]]

\* values_match(expected, actual, field_path, tolerances, tolerance_categories)
values_match(expected, actual, field_path) ==
    IF expected.t = "null" /\ actual.t = "null" THEN TRUE
    ELSE IF expected.t = "null" \/ actual.t = "null" THEN FALSE
    ELSE IF IsNumeric(expected) /\ IsNumeric(actual)
    THEN numbers_match(expected.n, actual.n)
    ELSE IF expected.t = "str" /\ actual.t = "str"
    THEN normalize_text(expected.s, field_path) = normalize_text(actual.s, field_path)
    ELSE IF IsNumeric(expected)
    THEN FloatParses(actual.s) /\ numbers_match(expected.n, Float(actual.s))
    ELSE normalize_text(expected.s, field_path) = normalize_text(StrOf(actual), field_path)

\* A dict of scalars: key -> cell, a cell being a value or a missing key.
Cell(v) == [has |-> TRUE, v |-> v]
NoCell == [has |-> FALSE, v |-> Null]

\* flatten_dict(data, prefix) of a dict of scalars: one path for each key
flatten_cells(cells, prefix) ==
    {[path |-> Append(prefix, Tok(k)), value |-> cells[k].v] :
        k \in {x \in DOMAIN cells : cells[x].has}}

\* the path of a key of a dict that is item i (from 0) of the list under k
ItemPrefix(k, i) == <<TokI(k, i)>>

\* The records drawn have the shape {"project": {...}, "walls": [{...}, ...],
\* "extraction_status": {...}}.  flatten_dict(data): nested dicts recurse, a
\* list of dicts gives prefix[i].key, an empty dict or list gives no path.
flatten_dict(data) ==
    flatten_cells(data.project, <<Tok("project")>>)
    \cup UNION {flatten_cells(data.walls[i], ItemPrefix("walls", i - 1)) :
                  i \in 1..Len(data.walls)}
    \cup flatten_cells(data.extraction_status, <<Tok("extraction_status")>>)

FlatPaths(flat) == {e.path : e \in flat}
FlatGet(flat, p) == IF p \in FlatPaths(flat)
                    THEN (CHOOSE e \in flat : e.path = p).value ELSE Null

\* a non-extractable pattern: a path, possibly with [*] indices, and whether it
\* ends with ".*"
Pattern(path, prefix) == [path |-> path, prefix |-> prefix]

\* re.sub(r'\[\d+\]', '[*]', field_path)
StarIndices(path) ==
    [j \in 1..Len(path) |-> IF path[j].i >= 0 THEN TokI(path[j].k, Star) ELSE path[j]]

\* field_path.startswith(prefix + '.')
StartsWithDot(path, prefix) ==
    /\ Len(path) > Len(prefix)
    /\ SubSeq(path, 1, Len(prefix)) = prefix

\* is_non_extractable(field_path, exclusion_set)
is_non_extractable(field_path, exclusion_set) ==
    \/ Pattern(field_path, FALSE) \in exclusion_set
    \/ Pattern(StarIndices(field_path), FALSE) \in exclusion_set
    \/ \E p \in exclusion_set : p.prefix /\ StartsWithDot(field_path, p.path)

\* the non_extractable_fields of the mapping: one pattern of each kind
NonExtractable ==
    {Pattern(<<Tok("project"), Tok("run_id")>>, FALSE),
     Pattern(<<TokI("walls", Star), Tok("id")>>, FALSE),
     Pattern(<<Tok("extraction_status")>>, TRUE)}

FieldDiscrepancy(path, expected, actual, error_type) ==
    [field_path |-> path, expected |-> expected, actual |-> actual,
     error_type |-> error_type]

\* the error type of a pair of values that do not match
mismatch_type(expected, actual) ==
    IF IsNumeric(expected) /\ IsNumeric(actual) THEN "wrong_value"
    ELSE IF expected.t # actual.t THEN "format_error"
    ELSE "wrong_value"

\* compare_fields(ground_truth, extracted, mapping): the discrepancies, as the
\* set of the list's entries (the list holds no entry twice: each loop makes at
\* most one entry for a path and the second loop only for paths the first did
\* not visit)
compare_fields(ground_truth, extracted) ==
    LET gt_flat == flatten_dict(ground_truth)
        ext_flat == flatten_dict(extracted)
    IN  {FieldDiscrepancy(e.path, e.value, Null, "omission") :
            e \in {x \in gt_flat :
                     /\ ~is_non_extractable(x.path, NonExtractable)
                     /\ FlatGet(ext_flat, x.path).t = "null"}}
        \cup
        {FieldDiscrepancy(e.path, e.value, FlatGet(ext_flat, e.path),
                          mismatch_type(e.value, FlatGet(ext_flat, e.path))) :
            e \in {x \in gt_flat :
                     /\ ~is_non_extractable(x.path, NonExtractable)
                     /\ FlatGet(ext_flat, x.path).t # "null"
                     /\ ~values_match(x.value, FlatGet(ext_flat, x.path), x.path)}}
        \cup
        {FieldDiscrepancy(e.path, Null, e.value, "hallucination") :
            e \in {x \in ext_flat :
                     /\ ~is_non_extractable(x.path, NonExtractable)
                     /\ x.path \notin FlatPaths(gt_flat)}}

\* sum(1 for d in discrepancies if d.error_type == kind)
CountType(discrepancies, kind) ==
    Cardinality({d \in discrepancies : d.error_type = kind})

\* compute_field_level_metrics: true_positives
true_positives(total_fields_gt, omissions, wrong_values, format_errors) ==
    total_fields_gt - omissions - wrong_values - format_errors

\* compute_field_level_metrics from the counts by error type
metrics_of(omissions, hallucinations, wrong_values, format_errors, total_fields_gt, total_fields_extracted) ==
    [true_positives |->
        true_positives(total_fields_gt, omissions, wrong_values, format_errors),
     false_positives |-> hallucinations + wrong_values + format_errors,
     false_negatives |-> omissions,
     total_fields_gt |-> total_fields_gt,
     total_fields_extracted |-> total_fields_extracted,
     errors_by_type |-> [omission |-> omissions, hallucination |-> hallucinations,
                         wrong_value |-> wrong_values, format_error |-> format_errors]]

\* compute_field_level_metrics(discrepancies, total_fields_gt,
\* total_fields_extracted) of a set of discrepancies
compute_field_level_metrics(discrepancies, total_fields_gt, total_fields_extracted) ==
    metrics_of(CountType(discrepancies, "omission"),
               CountType(discrepancies, "hallucination"),
               CountType(discrepancies, "wrong_value"),
               CountType(discrepancies, "format_error"),
               total_fields_gt, total_fields_extracted)

\* the strings drawn
Oakland == <<"O", "a", "k", "l", "a", "n", "d">>
OaklandLoose == <<" ", "o", "a", "k", "l", "a", "n", "d", ".">>
SanJose == <<"S", "J">>
W1 == <<"W", "1">>
W1Tagged == <<"W", "1", " ", "(", "3", "0", ")">>
Thousand == <<"1", "0", "0", "0">>

ProjectDict(city, run_id, zone) == [city |-> city, run_id |-> run_id, zone |-> zone]
WallDict(name, id) == [name |-> name, id |-> id]
StatusDict(domain) == [domain |-> domain]
Record(project_dict, walls, status) ==
    [project |-> project_dict, walls |-> walls, extraction_status |-> status]

\* the ground truths drawn
GroundTruths ==
    {Record(ProjectDict(city, run_id, zone), walls, StatusDict(domain)) :
        city \in {NoCell, Cell(Str(Oakland)), Cell(Null)},
        run_id \in {NoCell, Cell(Str(<<"r">>))},
        zone \in {NoCell, Cell(Number(1000))},
        walls \in {<<>>, <<WallDict(Cell(Str(W1)), Cell(Str(<<"a">>)))>>},
        domain \in {NoCell, Cell(Str(<<"z">>))}}

\* the extracted records drawn
ExtractedRecords ==
    {Record(ProjectDict(city, run_id, zone), walls, StatusDict(domain)) :
        city \in {NoCell, Cell(Str(Oakland)), Cell(Str(OaklandLoose)),
                  Cell(Str(SanJose)), Cell(Null), Cell(Number(12))},
        run_id \in {NoCell, Cell(Str(<<"q">>))},
        zone \in {NoCell, Cell(Number(1000)), Cell(Number(1001)), Cell(Number(12)),
                  Cell(Str(Thousand)), Cell(Null)},
        walls \in {<<>>, <<WallDict(Cell(Str(W1Tagged)), NoCell)>>,
                   <<WallDict(Cell(Bool(TRUE)), Cell(Str(<<"b">>))),
                     WallDict(Cell(Str(W1)), NoCell)>>},
        domain \in {NoCell, Cell(Str(<<"z">>))}}

NoErrors == [omission |-> 0, hallucination |-> 0, wrong_value |-> 0, format_error |-> 0]
MetricsCall(errors, total_fields_gt, total_fields_extracted) ==
    [errors |-> errors, total_fields_gt |-> total_fields_gt,
     total_fields_extracted |-> total_fields_extracted]
NoMetrics == [done |-> FALSE, metrics |-> metrics_of(0, 0, 0, 0, 0, 0)]
NotCompared == [done |-> FALSE, discrepancies |-> {}]

\* no verification under way
VerifyIdle ==
    /\ cmp_in = [ground_truth |-> Record(ProjectDict(NoCell, NoCell, NoCell), <<>>,
                                         StatusDict(NoCell)),
                 extracted |-> Record(ProjectDict(NoCell, NoCell, NoCell), <<>>,
                                      StatusDict(NoCell))]
    /\ cmp_out = NotCompared

MetricsIdle ==
    /\ met_in = MetricsCall(NoErrors, 0, 0)
    /\ met_out = NoMetrics

VerifyInit ==
    /\ cmp_in \in {[ground_truth |-> g, extracted |-> e] :
                     g \in GroundTruths, e \in ExtractedRecords}
    /\ cmp_out = NotCompared
    /\ MetricsIdle

\* verify_one: compare, flatten for counting, compute the metrics
VerifyOne ==
    /\ ~cmp_out.done
    /\ LET discrepancies == compare_fields(cmp_in.ground_truth, cmp_in.extracted)
           gt_flat == flatten_dict(cmp_in.ground_truth)
           ext_flat == flatten_dict(cmp_in.extracted)
       IN  /\ cmp_out' = [done |-> TRUE, discrepancies |-> discrepancies]
           /\ met_in' = MetricsCall(
                  [omission |-> CountType(discrepancies, "omission"),
                   hallucination |-> CountType(discrepancies, "hallucination"),
                   wrong_value |-> CountType(discrepancies, "wrong_value"),
                   format_error |-> CountType(discrepancies, "format_error")],
                  Cardinality(gt_flat), Cardinality(ext_flat))
           /\ met_out' = [done |-> TRUE,
                          metrics |-> compute_field_level_metrics(
                              discrepancies, Cardinality(gt_flat), Cardinality(ext_flat))]
    /\ UNCHANGED cmp_in
    /\ UNCHANGED nonverifyvars

\* bounds: the most discrepancies of one error type, and the largest field
\* count, of a direct call of compute_field_level_metrics
MaxErrors == 2
MaxFields == 2

MetricsInit ==
    /\ VerifyIdle
    /\ met_in \in {MetricsCall([omission |-> o, hallucination |-> h,
                                wrong_value |-> w, format_error |-> f], g, x) :
                     o \in 0..MaxErrors, h \in 0..MaxErrors, w \in 0..MaxErrors,
                     f \in 0..MaxErrors, g \in 0..MaxFields, x \in 0..MaxFields}
    /\ met_out = NoMetrics

\* one call of compute_field_level_metrics on a discrepancy list with the
\* drawn number of entries of each error type
Metrics ==
    /\ ~met_out.done
    /\ met_out' = [done |-> TRUE,
                   metrics |-> metrics_of(met_in.errors.omission,
                                          met_in.errors.hallucination,
                                          met_in.errors.wrong_value,
                                          met_in.errors.format_error,
                                          met_in.total_fields_gt,
                                          met_in.total_fields_extracted)]
    /\ UNCHANGED <<met_in, cmp_in, cmp_out>>
    /\ UNCHANGED nonverifyvars

ComparatorIdle == VerifyIdle /\ MetricsIdle

(***************************************************************************)
(* run_parallel_extraction: the gather and the merge of its results        *)
(***************************************************************************)

\* the tasks list of run_parallel_extraction, and the keys of the dict it
\* returns, by position
TaskOrder == <<"zones", "windows", "hvac", "dhw">>

\* what an extract_with_retry task returns: (data, status)
TaskResult(data, status) == [data |-> data, status |-> status]

\* the results a task of domain d can return: a reply at the first or at the
\* second attempt, or the failure after two attempts
TaskResults(d) ==
    {TaskResult(data, ExtractionStatus(d, "success", "null", rc, ItemsExtracted(data))) :
        data \in DomainReplies(d), rc \in 0..1}
    \cup {TaskResult(NoData, ExtractionStatus(d, "failed", "timeout", 1, 0))}

\* results in the order in which the tasks completed
as_completed(results, order) == [i \in 1..Len(TaskOrder) |-> results[order[i]]]

\* asyncio.gather(*tasks): the results in the order of the tasks list
gather(results, order) == [i \in 1..Len(TaskOrder) |-> results[TaskOrder[i]]]

\* the dict run_parallel_extraction returns: key i of the literal gets
\* results[i]
KeyedResults(results) ==
    [d \in Domains |-> results[CHOOSE i \in 1..Len(TaskOrder) : TaskOrder[i] = d]]

\* steps 5 and 6 of run_extraction on a domain_extractions dict: the merged
\* spec, the conflicts and the status map, or the ValidationError
MergedOutput(ex) ==
    IF merge_raises(ex)
    THEN [done |-> TRUE, error |-> "ValidationError", building_spec |-> NoSpec]
    ELSE [done |-> TRUE, error |-> "null",
          building_spec |-> BuildingSpec(merge_to_takeoff_spec(ProjectReply, ex),
                                         LegacyStatus(ex), LegacyConflicts(ex))]
NotGathered == [done |-> FALSE, error |-> "null", building_spec |-> NoSpec]

GatherInit ==
    /\ gather_in \in [Domains -> UNION {TaskResults(d) : d \in Domains}]
    /\ \A d \in Domains : gather_in[d] \in TaskResults(d)
    /\ finished = <<>>
    /\ gathered = NotGathered

\* the task of domain d completes
TaskDone(d) ==
    /\ \A i \in 1..Len(finished) : finished[i] # d
    /\ finished' = Append(finished, d)
    /\ UNCHANGED <<gather_in, gathered>>
    /\ UNCHANGED nongathervars

\* the gather returns once every task has completed; the results are keyed by
\* domain and merged
GatherReturn ==
    /\ Len(finished) = Len(TaskOrder)
    /\ ~gathered.done
    /\ gathered' = MergedOutput(KeyedResults(gather(gather_in, finished)))
    /\ UNCHANGED <<gather_in, finished>>
    /\ UNCHANGED nongathervars

GatherNext == (\E d \in Domains : TaskDone(d)) \/ GatherReturn

\* no gather under way
GatherIdle ==
    /\ gather_in = [d \in Domains |->
                      TaskResult(NoData, ExtractionStatus(d, "failed", "timeout", 1, 0))]
    /\ finished = <<>>
    /\ gathered = NotGathered

(***************************************************************************)
(* run_extract_all: worker threads sharing EXTRACTION_SEMAPHORE            *)
(***************************************************************************)

\* bound: the worker threads of the ThreadPoolExecutor that run at once
MaxWorkers == 2
Workers == 1..MaxWorkers

\* the invocations one run_extraction call makes at once through
\* invoke_claude_agent_async: the four domain extractors
TasksPerRun == 4

NoLoop == 0
NotMid == -1
Attempts == 0..(MaxAttempts - 1)

\* The run_extraction call of a worker thread, which runs its own event loop
\* (asyncio.run): todo[a] counts the invocations of attempt a that have not
\* yet called acquire, mid is the attempt of the invocation that has passed
\* the locked() test and not yet decremented the counter (NotMid for none),
\* running[a] the agent processes of attempt a, done the tasks that returned.
WorkerState(todo, mid, running, done, returned) ==
    [todo |-> todo, mid |-> mid, running |-> running, done |-> done,
     returned |-> returned]

\* a future in Semaphore._waiters: the loop of the waiting task, its attempt,
\* whether its result is set, and whether its loop has seen that
Waiter(loop, attempt, set, noticed) ==
    [loop |-> loop, attempt |-> attempt, set |-> set, noticed |-> noticed]

\* Semaphore.locked()
locked(value, waiters) == value = 0 \/ waiters # <<>>

\* the loop of a worker runs: it sees the results set on its futures
Notice(waiters, w) ==
    [i \in 1..Len(waiters) |->
       IF waiters[i].loop = w /\ waiters[i].set
       THEN [waiters[i] EXCEPT !.noticed = TRUE] ELSE waiters[i]]

\* Semaphore._wake_up_next() called by the loop of worker w: the first future
\* that is not done gets its result; a future of another loop is set from the
\* wrong thread, and its loop is not woken
wake_up_next(value, waiters, w) ==
    LET pending == {i \in 1..Len(waiters) : ~waiters[i].set}
    IN  IF pending = {} THEN [value |-> value, waiters |-> waiters]
        ELSE LET i == CHOOSE x \in pending : \A y \in pending : x <= y
             IN  [value |-> value - 1,
                  waiters |-> [waiters EXCEPT ![i].set = TRUE,
                                              ![i].noticed = (waiters[i].loop = w)]]

\* Semaphore.release() called by the loop of worker w
release(value, waiters, w) == wake_up_next(value + 1, waiters, w)

\* extract_with_retry after an invocation of attempt a raised: sleep and try
\* again, or return the failed status
raised(st, a) ==
    IF a + 1 < MaxAttempts THEN [st EXCEPT !.todo[a + 1] = @ + 1]
    ELSE [st EXCEPT !.done = @ + 1]

WorkersInit ==
    /\ sem_value = SemCapacity
    /\ sem_loop = NoLoop
    /\ sem_waiters = <<>>
    /\ worker = [w \in Workers |->
                   WorkerState([a \in Attempts |-> IF a = 0 THEN TasksPerRun ELSE 0],
                               NotMid, [a \in Attempts |-> 0], 0, FALSE)]

\* Semaphore.acquire() up to its first suspension, by an invocation of attempt
\* a in the loop of worker w: it passes the locked() test, or it appends a
\* future of the loop the semaphore is bound to, or _get_loop raises
\* RuntimeError because the semaphore is bound to another loop
AcquireCheck(w, a) ==
    /\ worker[w].mid = NotMid
    /\ worker[w].todo[a] > 0
    /\ IF ~locked(sem_value, sem_waiters)
       THEN /\ worker' = [worker EXCEPT ![w].todo[a] = @ - 1, ![w].mid = a]
            /\ sem_waiters' = Notice(sem_waiters, w)
            /\ UNCHANGED sem_loop
       ELSE IF sem_loop \notin {NoLoop, w}
       THEN /\ worker' = [worker EXCEPT ![w] = raised([@ EXCEPT !.todo[a] = @ - 1], a)]
            /\ sem_waiters' = Notice(sem_waiters, w)
            /\ UNCHANGED sem_loop
       ELSE /\ sem_loop' = w
            /\ sem_waiters' = Append(Notice(sem_waiters, w), Waiter(w, a, FALSE, FALSE))
            /\ worker' = [worker EXCEPT ![w].todo[a] = @ - 1]
    /\ UNCHANGED sem_value
    /\ UNCHANGED nonworkervars

\* self._value -= 1 after the test, and the spawn of the agent process; the
\* threads of the other workers may run between the test and the decrement
AcquireDecrement(w) ==
    /\ worker[w].mid # NotMid
    /\ sem_value' = sem_value - 1
    /\ worker' = [worker EXCEPT ![w].mid = NotMid,
                                ![w].running[worker[w].mid] = @ + 1]
    /\ UNCHANGED <<sem_loop, sem_waiters>>
    /\ UNCHANGED nonworkervars

\* an agent process of worker w ends (exit or timeout); its task leaves the
\* semaphore block and returns its reply or raises
ProcessExit(w, a) ==
    /\ worker[w].mid = NotMid
    /\ worker[w].running[a] > 0
    /\ LET r == release(sem_value, Notice(sem_waiters, w), w)
       IN  /\ sem_value' = r.value
           /\ sem_waiters' = r.waiters
    /\ \E ok \in BOOLEAN :
         worker' = [worker EXCEPT ![w] =
                      IF ok THEN [@ EXCEPT !.running[a] = @ - 1, !.done = @ + 1]
                      ELSE raised([@ EXCEPT !.running[a] = @ - 1], a)]
    /\ UNCHANGED sem_loop
    /\ UNCHANGED nonworkervars

\* a waiting invocation of worker w resumes after its loop saw the result of
\* its future: the rest of acquire(), then the spawn of the agent process
WaiterResume(w) ==
    /\ worker[w].mid = NotMid
    /\ \E i \in 1..Len(sem_waiters) :
         /\ sem_waiters[i].loop = w
         /\ sem_waiters[i].set
         /\ sem_waiters[i].noticed
         /\ LET rest == [j \in 1..(Len(sem_waiters) - 1) |->
                           IF j < i THEN sem_waiters[j] ELSE sem_waiters[j + 1]]
                r == IF sem_value > 0 THEN wake_up_next(sem_value, rest, w)
                     ELSE [value |-> sem_value, waiters |-> rest]
            IN  /\ sem_value' = r.value
                /\ sem_waiters' = r.waiters
                /\ worker' = [worker EXCEPT ![w].running[sem_waiters[i].attempt] = @ + 1]
    /\ UNCHANGED sem_loop
    /\ UNCHANGED nonworkervars

\* the gather of the worker's run returned: run_extraction returns its record
WorkerReturn(w) ==
    /\ ~worker[w].returned
    /\ worker[w].done = TasksPerRun
    /\ worker' = [worker EXCEPT ![w].returned = TRUE]
    /\ UNCHANGED <<sem_value, sem_loop, sem_waiters>>
    /\ UNCHANGED nonworkervars

WorkerNext(w) ==
    \/ \E a \in Attempts : AcquireCheck(w, a)
    \/ AcquireDecrement(w)
    \/ \E a \in Attempts : ProcessExit(w, a)
    \/ WaiterResume(w)
    \/ WorkerReturn(w)

WorkersNext == \E w \in Workers : WorkerNext(w)

\* no worker thread runs
WorkersIdle ==
    /\ sem_value = SemCapacity
    /\ sem_loop = NoLoop
    /\ sem_waiters = <<>>
    /\ worker = [w \in Workers |->
                   WorkerState([a \in Attempts |-> 0], NotMid, [a \in Attempts |-> 0],
                               TasksPerRun, TRUE)]

(***************************************************************************)
(* Specifications                                                          *)
(***************************************************************************)

\* the instruction files and the results trees while no improvement command
\* runs
ImproveIdle ==
    /\ ImproveInit
    /\ files[FileInstructions].lines[1].version = VersionString(<<1>>, <<2>>, <<3>>)
    /\ files[FileFieldGuide].lines[1].version = VersionString(<<1>>, <<2>>, <<3>>)
    /\ \A e \in EvalSet : ~tree[e][1].exists

Init ==
    /\ RunInit
    /\ StoreInit
    /\ results_dir = FALSE
    /\ ImproveIdle
    /\ FuseIdle
    /\ DiscIdle
    /\ DedupIdle
    /\ ComparatorIdle
    /\ GatherIdle
    /\ WorkersIdle

Spec == Init /\ [][Next]_vars

StoreSpecInit ==
    /\ RunInit
    /\ cache = NoCacheFile
    /\ StoreInit
    /\ ImproveIdle
    /\ FuseIdle
    /\ DiscIdle
    /\ DedupIdle
    /\ ComparatorIdle
    /\ GatherIdle
    /\ WorkersIdle

SpecStore == StoreSpecInit /\ [][StoreNext]_vars

ImproveSpecInit ==
    /\ RunInit
    /\ cache = NoCacheFile
    /\ StoreInit
    /\ results_dir = FALSE
    /\ ImproveInit
    /\ FuseIdle
    /\ DiscIdle
    /\ DedupIdle
    /\ ComparatorIdle
    /\ GatherIdle
    /\ WorkersIdle

SpecImprove == ImproveSpecInit /\ [][ImproveNext]_vars

FuseSpecInit ==
    /\ RunInit
    /\ cache = NoCacheFile
    /\ StoreInit
    /\ results_dir = FALSE
    /\ ImproveIdle
    /\ FuseInit
    /\ DiscIdle
    /\ DedupIdle
    /\ ComparatorIdle
    /\ GatherIdle
    /\ WorkersIdle

SpecFuse == FuseSpecInit /\ [][Fuse]_vars

DiscSpecInit ==
    /\ RunInit
    /\ cache = NoCacheFile
    /\ StoreInit
    /\ results_dir = FALSE
    /\ ImproveIdle
    /\ FuseIdle
    /\ DiscInit
    /\ DedupIdle
    /\ ComparatorIdle
    /\ GatherIdle
    /\ WorkersIdle

SpecDiscover == DiscSpecInit /\ [][Discover]_vars

DedupSpecInit ==
    /\ RunInit
    /\ cache = NoCacheFile
    /\ StoreInit
    /\ results_dir = FALSE
    /\ ImproveIdle
    /\ FuseIdle
    /\ DiscIdle
    /\ DedupInit
    /\ ComparatorIdle
    /\ GatherIdle
    /\ WorkersIdle

SpecDedup == DedupSpecInit /\ [][Dedup]_vars

VerifySpecInit ==
    /\ RunInit
    /\ cache = NoCacheFile
    /\ StoreInit
    /\ results_dir = FALSE
    /\ ImproveIdle
    /\ FuseIdle
    /\ DiscIdle
    /\ DedupIdle
    /\ VerifyInit
    /\ GatherIdle
    /\ WorkersIdle

SpecVerify == VerifySpecInit /\ [][VerifyOne]_vars

MetricsSpecInit ==
    /\ RunInit
    /\ cache = NoCacheFile
    /\ StoreInit
    /\ results_dir = FALSE
    /\ ImproveIdle
    /\ FuseIdle
    /\ DiscIdle
    /\ DedupIdle
    /\ MetricsInit
    /\ GatherIdle
    /\ WorkersIdle

SpecMetrics == MetricsSpecInit /\ [][Metrics]_vars

GatherSpecInit ==
    /\ RunInit
    /\ cache = NoCacheFile
    /\ StoreInit
    /\ results_dir = FALSE
    /\ ImproveIdle
    /\ FuseIdle
    /\ DiscIdle
    /\ DedupIdle
    /\ ComparatorIdle
    /\ GatherInit
    /\ WorkersIdle

SpecGather == GatherSpecInit /\ [][GatherNext]_vars

WorkersSpecInit ==
    /\ RunInit
    /\ cache = NoCacheFile
    /\ StoreInit
    /\ results_dir = FALSE
    /\ ImproveIdle
    /\ FuseIdle
    /\ DiscIdle
    /\ DedupIdle
    /\ ComparatorIdle
    /\ GatherIdle
    /\ WorkersInit

SpecWorkers == WorkersSpecInit /\ [][WorkersNext]_vars

\* every agent process eventually exits or hits its timeout, and every event
\* loop and thread keeps running while it has something to do
SpecWorkersFair ==
    /\ WorkersSpecInit
    /\ [][WorkersNext]_vars
    /\ \A w \in Workers : WF_vars(WorkerNext(w))

(***************************************************************************)
(* Properties                                                              *)
(***************************************************************************)

\* the agent processes started through invoke_claude_agent_async that have not
\* ended: those of the passes, cancelled or not, and of the domain extractors
AsyncProcesses ==
    Cardinality({p \in Passes : pass[p].task \in {"running", "cancelled_running"}})
    + Cardinality({d \in Domains : dom[d].task = "running"})

\* the tasks inside the semaphore block
PermitsHeld ==
    Cardinality({p \in Passes : pass[p].task \in {"holding", "running"}})
    + Cardinality({d \in Domains : dom[d].task = "running"})

\* some invocation made through invoke_claude_agent_async has not completed
AsyncInvocationOpen ==
    \/ \E p \in Passes :
         pass[p].task \in {"holding", "running", "cancelled_queued", "cancelled_running"}
    \/ \E d \in Domains : dom[d].task = "running"

\* C1: at every moment the agent processes started through
\* invoke_claude_agent_async and not yet ended number at most the capacity of
\* the semaphore; the free permits are the capacity less the tasks inside the
\* semaphore block, so a process of a task that was not cancelled runs under a
\* permit taken before its spawn; and once no invocation is open, whether its
\* process succeeded, failed or timed out, every permit is free again.
C1_SemaphoreBound ==
    /\ AsyncProcesses <= SemCapacity
    /\ sem \in 0..SemCapacity
    /\ sem + PermitsHeld = SemCapacity
    /\ ~AsyncInvocationOpen => sem = SemCapacity

\* C1: the four domain processes run at once on the last permits, one of them
\* in a second attempt, after a failed invocation gave its permit back
C1_Witness ==
    /\ AsyncProcesses = SemCapacity
    /\ sem = 0
    /\ \E d \in Domains : dom[d].attempt = 1

\* some orientation pass or the project extraction has started
Stage1Started ==
    \/ \E p \in Passes : pass[p].task # "idle"
    \/ project.task # "idle"

\* some domain extractor has been started
FanOutStarted == \E d \in Domains : dom[d].task # "idle"

\* the merge has started: run_extraction returned its result, or the error of
\* the merge
MergeStarted ==
    /\ result.returned
    /\ result.building_spec.present \/ result.error = "ValidationError"

\* C2: no orientation pass and no project extraction starts before discovery
\* has completed (a document map is there, and the discovery agent, if it was
\* called, has exited); no domain extractor starts before both passes and the
\* project extraction have completed; the merge starts only after all four
\* domain extractors have returned.
C2_StageOrder ==
    /\ Stage1Started =>
         /\ pc \notin {"start", "discovery"}
         /\ document_map # NoMap
         /\ "discovery" \in timing
    /\ FanOutStarted =>
         /\ \A p \in Passes : pass[p].task = "done"
         /\ project.task = "done"
    /\ MergeStarted => \A d \in Domains : dom[d].task = "done"

\* C2: a run that went through every stage: discovery by the agent, both
\* passes, the project extraction, four domain extractors, and the merge
C2_Witness ==
    /\ MergeStarted
    /\ disc_calls = 1
    /\ \A d \in Domains : dom[d].calls >= 1
    /\ \A p \in Passes : pass[p].task = "done"

\* extract_with_retry of domain d ended with non-null data and status success
EndedSuccess(d) ==
    /\ dom[d].task = "done"
    /\ dom[d].status.status = "success"
    /\ ~dom[d].data.is_null

\* extract_with_retry of domain d ended with null data and status failed
EndedFailed(d) ==
    /\ dom[d].task = "done"
    /\ dom[d].status.status = "failed"
    /\ dom[d].data.is_null

\* C3: every domain's extract_with_retry spawns at most two agent processes,
\* the second only after a failed first attempt; it ends with non-null data,
\* status success and retry_count the number of failed attempts (0 or 1, one
\* less than the processes spawned), or, after two failed attempts and two
\* processes, with null data, status failed, retry_count 1 and the error text.
C3_RetryOnce ==
    \A d \in Domains :
      /\ dom[d].calls <= 2
      /\ dom[d].calls <= dom[d].attempt + 1
      /\ dom[d].attempt \in {0, 1}
      /\ dom[d].task = "done" =>
           \/ /\ EndedSuccess(d)
              /\ dom[d].status.retry_count = dom[d].calls - 1
              /\ dom[d].status.retry_count \in {0, 1}
              /\ dom[d].status.error = "null"
           \/ /\ EndedFailed(d)
              /\ dom[d].calls = 2
              /\ dom[d].status.retry_count = 1
              /\ dom[d].status.error \in FailureKinds

\* C3: one domain failed twice, another succeeded at its second attempt and a
\* third at its first
C3_Witness ==
    /\ \E d \in Domains : EndedFailed(d) /\ dom[d].calls = 2
    /\ \E d \in Domains : EndedSuccess(d) /\ dom[d].status.retry_count = 1
    /\ \E d \in Domains : EndedSuccess(d) /\ dom[d].status.retry_count = 0

\* the data of domain d when it succeeded, and nothing when it failed
Survived(d) == IF EndedSuccess(d) THEN dom[d].data ELSE NoData

\* the house walls the zones and windows data that survived give, by the rules
\* of the merge
SurvivingWalls == WallsAfterWindows(WallsFromZones(Survived("zones")), Survived("windows"))

\* the run went through the fan-out and the merge and returned a building spec
MergedRun == result.returned /\ result.building_spec.present

\* C4: when a domain failed both attempts, the gather still returned one entry
\* for each of the four domains, each ended in success or failure of its own;
\* the status map of the building spec repeats those entries; each list of the
\* building spec holds what the domain owning it extracted and is empty when
\* that domain failed; walls and windows are those of the surviving zones and
\* windows data.
C4_PartialFailure ==
    (MergedRun /\ \E d \in Domains : EndedFailed(d)) =>
      /\ \A d \in Domains : EndedSuccess(d) \/ EndedFailed(d)
      /\ \A d \in Domains :
           /\ result.building_spec.extraction_status[d] = dom[d].status
           /\ dom[d].status.domain = d
      /\ result.building_spec.hvac_systems = ListOf(Survived("hvac"), "hvac_systems")
      /\ result.building_spec.water_heating_systems = ListOf(Survived("dhw"), "dhw_systems")
      /\ result.building_spec.zones = ListOf(Survived("zones"), "conditioned_zones")
      /\ result.building_spec.slab_floors = ListOf(Survived("zones"), "slab_floors")
      /\ result.building_spec.ceilings =
           SelectSeq(ListOf(Survived("zones"), "ceilings"), IsCathedral)
      /\ result.building_spec.walls = transform_walls(SurvivingWalls)
      /\ result.building_spec.windows = transform_windows(SurvivingWalls)

\* C4: the dhw extractor failed twice while the three others succeeded, and
\* the building spec holds their HVAC systems, walls and windows
C4_Witness ==
    /\ MergedRun
    /\ EndedFailed("dhw")
    /\ \A d \in Domains \ {"dhw"} : EndedSuccess(d)
    /\ result.building_spec.water_heating_systems = <<>>
    /\ result.building_spec.hvac_systems # <<>>
    /\ result.building_spec.walls # <<>>
    /\ result.building_spec.windows # <<>>

\* a fatal failure of stage 1 has happened
Stage1Failed ==
    \/ project.task = "raised"
    \/ orientation.task = "raised"
    \/ pc = "abort"

\* the errors of a missing PDF, of discovery and of the project extraction
FatalErrors == {"FileNotFoundError", "ValueError", "invalid_response"} \cup FailureKinds

FailedPasses == {p \in Passes : pass[p].result.status = "error"}

\* the verification category that names the passes that failed
FailedCategory ==
    CASE FailedPasses = {1} -> "pass1_failed"
      [] FailedPasses = {2} -> "pass2_failed"
      [] FailedPasses = {1, 2} -> "both_failed"
      [] OTHER -> "null"

\* the flags the returned record carries (those of its TakeoffSpec)
ReturnedFlags ==
    IF result.takeoff_spec.present THEN result.takeoff_spec.spec.flags ELSE <<>>

\* the returned record identifies the failure of domain d: the status map of
\* its building spec holds the failed status of d
DomainFailureShown(d) ==
    /\ result.building_spec.present
    /\ result.building_spec.extraction_status[d].status = "failed"

\* the returned record identifies the failure of the orientation passes: the
\* project block of its building spec or of its TakeoffSpec holds the
\* verification category, or a flag names the orientation
OrientationFailureShown ==
    \/ /\ result.building_spec.present
       /\ result.building_spec.project.orientation_verification = FailedCategory
    \/ /\ result.takeoff_spec.present
       /\ result.takeoff_spec.spec.project.orientation_verification = FailedCategory
    \/ \E i \in 1..Len(ReturnedFlags) : ReturnedFlags[i] = "project.front_orientation"

\* C6: in every run that returns a building spec, the returned record
\* identifies each domain extractor that failed both attempts by a status
\* field, and the failure of one or both orientation passes by a status field
\* or an uncertainty flag.
C6_NoSilentFailure ==
    MergedRun =>
      /\ \A d \in Domains : EndedFailed(d) => DomainFailureShown(d)
      /\ FailedPasses # {} => OrientationFailureShown

\* the part of C6 about the domain extractors
C6_DomainFailuresShown ==
    MergedRun => \A d \in Domains : EndedFailed(d) => DomainFailureShown(d)

\* nothing but the orientation passes failed in stage 1, and the document map
\* gives every domain extractor a page
OnlyPassesFailed ==
    /\ FailedPasses # {}
    /\ project.task # "raised"
    /\ \A d \in Domains : ~build_domain_prompt_raises(d, document_map)

\* the fused bearing the claim C7 expects: that of the surviving pass, or 0.0
\* with confidence low and category both_failed
FusedAsClaimed ==
    CASE FailedPasses = {1} ->
           orientation.data = OrientationData(pass[2].result.orientation,
                                              pass[2].result.confidence, "pass1_failed")
      [] FailedPasses = {2} ->
           orientation.data = OrientationData(pass[1].result.orientation,
                                              pass[1].result.confidence, "pass2_failed")
      [] OTHER -> orientation.data = OrientationData(Num(0), "low", "both_failed")

\* C7: when one or both orientation passes failed and nothing else of stage 1
\* did, the run is not aborted: a returned record comes from the merge, after
\* a fan-out under the fused bearing of the claim, and, unless the merge itself
\* rejected the domain data, it holds a building spec and no error.
C7_PassFailureNotFatal ==
    (result.returned /\ OnlyPassesFailed) =>
      /\ FusedAsClaimed
      /\ \A d \in Domains : dom[d].calls >= 1
      /\ result.error \in {"null", "ValidationError"}
      /\ result.error = "null" => result.building_spec.present

\* the part of C7 that holds: when the surviving pass gave a number as its
\* bearing, or both passes failed
C7_NumericBearing ==
    (/\ result.returned
     /\ OnlyPassesFailed
     /\ \A p \in Passes \ FailedPasses : pass[p].result.orientation.num) =>
      /\ FusedAsClaimed
      /\ \A d \in Domains : dom[d].calls >= 1
      /\ result.error \in {"null", "ValidationError"}
      /\ result.error = "null" => result.building_spec.present

\* the cache file as the claim describes it: it exists, it validates as a
\* DocumentMap and it carries a cache_version that is at least the current one
CacheFileValid(c) ==
    /\ c.exists
    /\ c.parses
    /\ MapValid(c.doc)
    /\ c.doc.has_version
    /\ c.doc.cache_version >= CACHE_VERSION

\* C8: while the discovery cache file exists, validates and carries a
\* cache_version at least the current one, no step of run_extraction invokes
\* the discovery agent; a run that finds its PDFs goes from its start straight
\* to stage 1 with the DocumentMap of the cache file; and the file it leaves is
\* again such a cache file and gives the same DocumentMap, so that a repeated
\* run yields that DocumentMap again.
C8_CacheHit ==
    [][CacheFileValid(cache) =>
         /\ disc_calls' <= disc_calls
         /\ pc' # "discovery"
         /\ CacheFileValid(cache')
         /\ (pc = "start" /\ pc' # "done") =>
              /\ pc' = "stage1"
              /\ disc_calls' = 0
              /\ document_map' = DocumentMap(cache.doc)
              /\ DocumentMap(cache'.doc) = document_map'
         /\ (pc = "start" /\ pc' = "done") => result'.error = "FileNotFoundError"
      ]_vars

\* C8: a second run on a cache file of a newer version than the current one
\* has reached stage 1 with the cached map and without a discovery call
C8_Witness ==
    /\ run_no = 2
    /\ pc = "stage1"
    /\ disc_calls = 0
    /\ CacheFileValid(cache)
    /\ cache.doc.cache_version > CACHE_VERSION
    /\ document_map = DocumentMap(cache.doc)
    /\ document_map.total_pages >= 1

\* the iteration numbers of the existing iteration directories
ExistingIterations == {ParseInt(d.name) : d \in iterations}

\* the store wrote something
StoreWrote == iterations' # iterations \/ aggregate' # aggregate

\* C9: every save creates a new iteration directory and leaves every
\* iteration directory that existed before it, with its files, as it was.
C9_NeverOverwrites ==
    [][StoreWrote =>
         /\ \A d \in iterations : d \in iterations'
         /\ Cardinality(iterations') = Cardinality(iterations) + 1
      ]_vars

\* C10: get_next_iteration returns one more than the largest number among
\* the existing iteration directories and 1 when there is none, so it never
\* returns a number at or below an existing one (a number skipped by a direct
\* save is not handed out later); with no directory it gives 1, with
\* iteration 1 alone it gives 2, with iteration 3 alone it gives 4.
C10_NextIteration ==
    /\ get_next_iteration =
         IF ExistingIterations = {} THEN 1
         ELSE (CHOOSE m \in ExistingIterations :
                 \A k \in ExistingIterations : k <= m) + 1
    /\ \A k \in ExistingIterations : get_next_iteration > k
    /\ ExistingIterations = {} => get_next_iteration = 1
    /\ ExistingIterations = {1} => get_next_iteration = 2
    /\ ExistingIterations = {3} => get_next_iteration = 4

\* C10: iteration 3 was saved directly into empty results, iteration 2 was
\* skipped, and the next number is 4
C10_Witness ==
    /\ results_dir
    /\ ExistingIterations = {3}
    /\ Len(aggregate.iterations) = 1
    /\ get_next_iteration = 4

\* the history of aggregate.json
History == aggregate.iterations

\* the largest f1 of the history
MaxF1 == CHOOSE x \in {History[i].f1 : i \in 1..Len(History)} :
           \A i \in 1..Len(History) : History[i].f1 <= x

\* the position of the entry saved last among those with the largest f1
LatestBest == CHOOSE i \in 1..Len(History) :
                /\ History[i].f1 = MaxF1
                /\ \A j \in 1..Len(History) : History[j].f1 = MaxF1 => j <= i

\* aggregate.json after at least one save: the trends and the best entry
AggregateConsistent ==
    aggregate.exists =>
      /\ Len(History) >= 1
      /\ History[1].trend = 0
      /\ \A i \in 2..Len(History) : History[i].trend = History[i].f1 - History[i - 1].f1
      /\ aggregate.best_f1 = MaxF1
      /\ aggregate.best_iteration = History[LatestBest].iteration

\* C11: every save appends exactly one entry to the history of
\* aggregate.json and leaves the earlier entries as they were; in the file it
\* leaves, the trend of an entry is its f1 less the f1 of the entry saved just
\* before it (0 for the first), best_f1 is the largest f1 of the history, and
\* best_iteration is the iteration of the entry saved last among those that
\* reached it.
C11_AggregateHistory ==
    [][/\ StoreWrote =>
            /\ aggregate'.exists
            /\ Len(aggregate'.iterations) = Len(History) + 1
            /\ SubSeq(aggregate'.iterations, 1, Len(History)) = History
       /\ AggregateConsistent'
      ]_vars

\* C11: three saves, the best f1 reached twice and then not reached: the best
\* iteration is that of the second save
C11_Witness ==
    /\ Len(History) = 3
    /\ History[1].f1 = 100 /\ History[2].f1 = 100 /\ History[3].f1 = 50
    /\ History[1].iteration # History[2].iteration
    /\ aggregate.best_iteration = History[2].iteration
    /\ History[3].trend = 0 - 50

\* the step is an improve command that applied its proposal
ImproveApplied ==
    /\ cli_out' # cli_out
    /\ cli_out'.cmd = "improve"
    /\ cli_out'.error = "null"

\* the step is a rollback command
RolledBack ==
    /\ cli_out' # cli_out
    /\ cli_out'.cmd = "rollback"

\* after an applied proposal every evaluation's iteration directory holds a
\* snapshot of the target file with the content the file had before
SnapshotTaken ==
    ImproveApplied =>
      \A e \in EvalSet :
        \E x \in tree'[e][cli_out'.iteration].snapshots :
          /\ x.origin = cli_out'.target_file
          /\ x.lines = files[cli_out'.target_file].lines

\* after rollback N every file snapshotted in iteration N holds the content
\* of its snapshot again
RollbackRestores ==
    RolledBack =>
      \A e \in EvalSet :
        \A x \in tree[e][cli_out'.iteration].snapshots :
          /\ files'[x.origin].exists
          /\ files'[x.origin].lines = x.lines

\* C12: an applied proposal of iteration N leaves, in every evaluation's
\* iteration-N/instruction-changes, a snapshot of the target file with the
\* content from before the change, and a later rollback N puts that content
\* back at the path the snapshot was taken from.
C12_SnapshotRollback == [][SnapshotTaken /\ RollbackRestores]_vars

\* the part of C12 about the snapshots
C12_SnapshotsTaken == [][SnapshotTaken]_vars

\* the part of C12 about rollback, for instruction files whose stem holds no
\* hyphen
C12_PlainStemRestored ==
    [][RolledBack =>
         \A e \in EvalSet :
           \A x \in tree[e][cli_out'.iteration].snapshots :
             Len(x.origin.stem) = 1 => files'[x.origin].lines = x.lines
      ]_vars

\* the numbers of a version string
VersionNumbers(v) == <<ParseInt(v[1]), ParseInt(v[2]), ParseInt(v[3])>>

\* bump(V, kind) as the claim C13 gives it
ClaimedBump(v, change_type) ==
    LET n == VersionNumbers(v)
    IN  CASE change_type \in {"add_section", "modify_section"} -> <<n[1], n[2] + 1, 0>>
          [] change_type = "restructure" -> <<n[1] + 1, 0, 0>>
          [] OTHER -> <<n[1], n[2], n[3] + 1>>

\* the version of the target file is bumped as claimed and returned
VersionBumped ==
    LET target == cli_out'.target_file
        v == parse_instruction_version(files[target].lines)
        bumped == ClaimedBump(v, cli_out'.change_type)
    IN  /\ VersionNumbers(parse_instruction_version(files'[target].lines)) = bumped
        /\ cli_out'.old_version = v
        /\ VersionNumbers(cli_out'.new_version) = bumped

\* C13: after apply_proposal on a file of version V the version read back
\* from the file is bump(V, kind), kind being minor for add_section and
\* modify_section, major for restructure and patch for every other change
\* type, and apply_proposal returns (V, bump(V, kind)).
C13_VersionBump == [][ImproveApplied => VersionBumped]_vars

\* the part of C13 that holds: files with a version token in their header
C13_HeaderVersion ==
    [][(/\ ImproveApplied
        /\ \E i \in 1..Len(files[cli_out'.target_file].lines) :
             i <= HeaderLines /\ files[cli_out'.target_file].lines[i].version # NoVersion)
       => VersionBumped]_vars

\* both passes succeeded with a number as bearing, after the fusion
BothSucceeded ==
    /\ fused.done
    /\ fuse_in[1].status = "success" /\ fuse_in[1].orientation.num
    /\ fuse_in[2].status = "success" /\ fuse_in[2].orientation.num

\* a compass bearing: a number in [0, 360)
IsBearing(o) == o.num /\ 0 <= o.v /\ o.v < FullCircle

\* the angular distance of the two bearings, in tenths of a degree
Delta == angular_distance(fuse_in[1].orientation.v, fuse_in[2].orientation.v)

\* m is the midpoint of the shorter arc between bearings a and b
IsCircularMean(m, a, b) ==
    /\ 0 <= m /\ m < FullCircle
    /\ 2 * angular_distance(m, a) = angular_distance(a, b)
    /\ 2 * angular_distance(m, b) = angular_distance(a, b)

\* the fusion agrees on the midpoint of the shorter arc between the bearings
AgreedOnMean ==
    /\ ~fused.result.raised
    /\ fused.result.verification = "agreement"
    /\ fused.result.confidence = "high"
    /\ fused.result.final_orientation.num
    /\ IsCircularMean(fused.result.final_orientation.v % FullCircle,
                      fuse_in[1].orientation.v, fuse_in[2].orientation.v)

\* C14: when both passes succeeded and the angular distance of their
\* bearings is at most 20 degrees, the fused category is agreement, the
\* confidence high, and the final bearing is the midpoint of the shorter arc
\* between the two (72 and 74 give 73; 359 and 0 give 359.5, not 179.5).
C14_Agreement == (BothSucceeded /\ Delta <= 200) => AgreedOnMean

\* the part of C14 that holds: pass bearings in [0, 360)
C14_BearingsIn ==
    (/\ BothSucceeded
     /\ IsBearing(fuse_in[1].orientation) /\ IsBearing(fuse_in[2].orientation)
     /\ Delta <= 200) =>
      AgreedOnMean /\ IsBearing(fused.result.final_orientation)

\* the category the claim C15 gives for an angular distance above 20 degrees
ClaimedCategory(delta) ==
    IF 700 <= delta /\ delta <= 1100 THEN "side_front_confusion"
    ELSE IF 1600 <= delta /\ delta <= 2000 THEN "front_back_confusion"
    ELSE "disagreement"

\* the rank of a confidence word
ClaimedRank(c) ==
    IF c = "high" THEN 3 ELSE IF c = "medium" THEN 2 ELSE IF c = "low" THEN 1 ELSE 0

\* C15: when both passes succeeded and their angular distance exceeds 20
\* degrees, the fused bearing is that of the pass whose confidence ranks
\* higher (pass 1 on a tie), the fused confidence is low, and the category is
\* side_front_confusion for 70..110 degrees, front_back_confusion for
\* 160..200 degrees and disagreement otherwise.
C15_Disagreement ==
    (BothSucceeded /\ Delta > 200) =>
      /\ ~fused.result.raised
      /\ fused.result.final_orientation =
           (IF ClaimedRank(fuse_in[2].confidence) > ClaimedRank(fuse_in[1].confidence)
            THEN fuse_in[2].orientation ELSE fuse_in[1].orientation)
      /\ fused.result.confidence = "low"
      /\ fused.result.verification = ClaimedCategory(Delta)

\* C15: passes 160 degrees apart, pass 2 the more confident one
C15_Witness ==
    /\ BothSucceeded
    /\ fuse_in[1] = PassSuccess(Num(0), "low")
    /\ fuse_in[2] = PassSuccess(Num(1600), "medium")
    /\ fused.result.verification = "front_back_confusion"
    /\ fused.result.final_orientation = Num(1600)

FusionCategories ==
    {"agreement", "side_front_confusion", "front_back_confusion", "disagreement",
     "pass1_failed", "pass2_failed", "both_failed"}

\* C16: for every pair of pass results the fusion returns a final bearing
\* in [0, 360) (0.0 when both failed) and one of the seven categories.
C16_FusedRange ==
    fused.done =>
      /\ ~fused.result.raised
      /\ IsBearing(fused.result.final_orientation)
      /\ fused.result.verification \in FusionCategories
      /\ (fuse_in[1].status # "success" /\ fuse_in[2].status # "success") =>
           fused.result.final_orientation = Num(0)

\* the part of C16 that holds: pass bearings that are bearings in [0, 360)
C16_BearingsIn ==
    (/\ fused.done
     /\ \A i \in {1, 2} : fuse_in[i].status = "success" => IsBearing(fuse_in[i].orientation)) =>
      /\ ~fused.result.raised
      /\ IsBearing(fused.result.final_orientation)
      /\ fused.result.verification \in FusionCategories

\* the page numbers of the map the evaluation proceeds with
ProceedPageNumbers ==
    {disc_out.map.pages[i].page_number : i \in 1..Len(disc_out.map.pages)}

\* C17: in every DocumentMap an evaluation proceeds with, fresh from the
\* discovery agent or loaded from the cache, every page number lies between 1
\* and total_pages and the page numbers are exactly 1..total_pages, none
\* missing and none repeated.
C17_PagesCoverDocument ==
    disc_out.state = "proceeds" =>
      /\ \A n \in ProceedPageNumbers : 1 <= n /\ n <= disc_out.map.total_pages
      /\ ProceedPageNumbers = 1..disc_out.map.total_pages
      /\ Len(disc_out.map.pages) = disc_out.map.total_pages

\* the part of C17 the schema enforces: page numbers and total_pages are at
\* least 1
C17_SchemaBounds ==
    disc_out.state = "proceeds" =>
      /\ \A n \in ProceedPageNumbers : 1 <= n
      /\ disc_out.map.total_pages >= 1

\* the wall names of the BuildingSpec returned
BuiltWallNames ==
    {result.building_spec.walls[i].name : i \in 1..Len(result.building_spec.walls)}

\* C18: in every BuildingSpec produced by the merge and the transform, each
\* window's wall field is the name of a wall of the same BuildingSpec and each
\* window's azimuth lies in [0, 360).
C18_WindowsOnWalls ==
    result.building_spec.present =>
      \A i \in 1..Len(result.building_spec.windows) :
        /\ result.building_spec.windows[i].wall \in BuiltWallNames
        /\ 0 <= result.building_spec.windows[i].azimuth
        /\ result.building_spec.windows[i].azimuth < AzimuthLimit

\* a BuildingSpec with windows on two walls, one taking the wall's own azimuth
\* and one the default azimuth of its key
C18_Witness ==
    /\ result.building_spec.present
    /\ \E i, j \in 1..Len(result.building_spec.windows) :
         /\ result.building_spec.windows[i].wall = "E Wall"
         /\ result.building_spec.windows[i].azimuth = DefaultAzimuth("east")
         /\ result.building_spec.windows[j].wall # "E Wall"

\* the positions of the named items that are the first of their name, and of
\* the named items that come after an item of their name and differ from the
\* first such item
FirstOfName(i) ==
    CHOOSE j \in 1..i : dedup_in.items[j].name = dedup_in.items[i].name
                        /\ \A k \in 1..(j - 1) :
                             dedup_in.items[k].name # dedup_in.items[i].name
FirstPositions ==
    {i \in 1..Len(dedup_in.items) :
       dedup_in.items[i].name # "null" /\ FirstOfName(i) = i}
LaterDiffering ==
    {i \in 1..Len(dedup_in.items) :
       /\ dedup_in.items[i].name # "null"
       /\ FirstOfName(i) # i
       /\ dedup_in.items[i] # dedup_in.items[FirstOfName(i)]}

\* the k-th smallest member of a set of positions
Nth(S, k) == CHOOSE i \in S : Cardinality({j \in S : j <= i}) = k

\* C19: deduplicate_by_name returns, in input order, exactly the first
\* occurrence of each distinct name; items without a name are dropped; it
\* records exactly one conflict with resolution kept_first for each later
\* occurrence whose values differ from the kept first occurrence, and none for
\* later occurrences identical to it.
C19_FirstOccurrences ==
    dedup_out.done =>
      /\ Len(dedup_out.kept) = Cardinality(FirstPositions)
      /\ \A k \in 1..Len(dedup_out.kept) :
           dedup_out.kept[k] = dedup_in.items[Nth(FirstPositions, k)]
      /\ Len(dedup_out.conflicts) = Cardinality(LaterDiffering)
      /\ \A k \in 1..Len(dedup_out.conflicts) :
           LET i == Nth(LaterDiffering, k)
           IN  /\ dedup_out.conflicts[k].resolution = "kept_first"
               /\ dedup_out.conflicts[k].item_name = dedup_in.items[i].name
               /\ dedup_out.conflicts[k].reported_value = dedup_in.items[FirstOfName(i)]
               /\ dedup_out.conflicts[k].conflicting_value = dedup_in.items[i]

\* a call on a list with a nameless item, a later item that differs from the
\* first of its name and a later item identical to the first of its name
C19_Witness ==
    /\ dedup_out.done
    /\ \E i \in 1..Len(dedup_in.items) : dedup_in.items[i].name = "null"
    /\ LaterDiffering # {}
    /\ \E i \in 1..Len(dedup_in.items) :
         /\ dedup_in.items[i].name # "null"
         /\ FirstOfName(i) # i
         /\ dedup_in.items[i] = dedup_in.items[FirstOfName(i)]
    /\ Len(dedup_out.kept) = 1
    /\ Len(dedup_out.conflicts) = 1

\* no two entries of a list share a name
UniqueNames(l) == \A i, j \in 1..Len(l) : l[i].name = l[j].name => i = j

\* C20: in the TakeoffSpec assembled by the merge and in the BuildingSpec
\* returned from it, no two entries of the same list among ceilings, slab
\* floors, HVAC systems and DHW systems share a name, whatever items the domain
\* extractors emitted.
C20_NamesUnique ==
    /\ result.building_spec.present =>
         /\ UniqueNames(result.building_spec.ceilings)
         /\ UniqueNames(result.building_spec.slab_floors)
         /\ UniqueNames(result.building_spec.hvac_systems)
         /\ UniqueNames(result.building_spec.water_heating_systems)
    /\ result.takeoff_spec.present =>
         /\ UniqueNames(result.takeoff_spec.spec.ceilings)
         /\ UniqueNames(result.takeoff_spec.spec.slab_floors)
         /\ UniqueNames(result.takeoff_spec.spec.hvac_systems)
         /\ UniqueNames(result.takeoff_spec.spec.dhw_systems)

\* the part of C20 that holds: a list of the BuildingSpec repeats a name only
\* where the extractor's list repeated it, since the merge copies the lists
C20_ListsCopied ==
    result.building_spec.present =>
      /\ result.building_spec.hvac_systems =
           (IF Truthy(dom["hvac"].data) THEN ListOf(dom["hvac"].data, "hvac_systems")
            ELSE <<>>)
      /\ result.building_spec.water_heating_systems =
           (IF Truthy(dom["dhw"].data) THEN ListOf(dom["dhw"].data, "dhw_systems")
            ELSE <<>>)

\* the flattened paths of the two records under comparison, and those of them
\* no non-extractable pattern matches
GtPaths == FlatPaths(flatten_dict(cmp_in.ground_truth))
ExtPaths == FlatPaths(flatten_dict(cmp_in.extracted))
ComparedPaths ==
    {p \in GtPaths \cup ExtPaths : ~is_non_extractable(p, NonExtractable)}

\* the discrepancies reported for a path
DiscrepanciesAt(p) == {d \in cmp_out.discrepancies : d.field_path = p}
TypesAt(p) == {d.error_type : d \in DiscrepanciesAt(p)}

\* C21: compare_fields gives every flattened path that no non-extractable
\* pattern matches exactly one outcome: an omission if and only if the path is
\* present only in the ground truth, a hallucination if and only if it is
\* present only in the extracted data, and otherwise a match or a single
\* wrong_value/format_error discrepancy; no path produces two discrepancies.
C21_OneOutcome ==
    cmp_out.done =>
      \A p \in ComparedPaths :
        /\ Cardinality(DiscrepanciesAt(p)) <= 1
        /\ "omission" \in TypesAt(p) <=> (p \in GtPaths /\ p \notin ExtPaths)
        /\ "hallucination" \in TypesAt(p) <=> (p \in ExtPaths /\ p \notin GtPaths)
        /\ (p \in GtPaths /\ p \in ExtPaths) =>
             TypesAt(p) \subseteq {"wrong_value", "format_error"}

\* the part of C21 that holds: at most one discrepancy for a path, a
\* hallucination exactly for a path only the extracted data has, and an
\* omission exactly for a ground-truth path whose extracted value is missing
\* or null
C21_AtMostOne ==
    cmp_out.done =>
      \A p \in ComparedPaths :
        /\ Cardinality(DiscrepanciesAt(p)) <= 1
        /\ "hallucination" \in TypesAt(p) <=> (p \in ExtPaths /\ p \notin GtPaths)
        /\ "omission" \in TypesAt(p) <=>
             (p \in GtPaths /\ FlatGet(flatten_dict(cmp_in.extracted), p).t = "null")

\* the errors counted against the ground-truth fields in a metrics call
GtErrors ==
    met_in.errors.omission + met_in.errors.wrong_value + met_in.errors.format_error

\* C22: for every discrepancy list and every field count passed to
\* compute_field_level_metrics, the reported true_positives equals N_gt -
\* omissions - wrong_values - format_errors clamped at 0, and is never
\* negative, even when the number of errors exceeds N_gt.
C22_TruePositivesClamped ==
    met_out.done =>
      /\ met_out.metrics.true_positives >= 0
      /\ met_out.metrics.true_positives =
           (IF met_in.total_fields_gt - GtErrors < 0 THEN 0
            ELSE met_in.total_fields_gt - GtErrors)

\* the part of C22 that holds: the difference itself is reported, which is
\* the clamped value whenever the errors do not exceed N_gt
C22_Difference ==
    met_out.done =>
      /\ met_out.metrics.true_positives = met_in.total_fields_gt - GtErrors
      /\ GtErrors <= met_in.total_fields_gt => met_out.metrics.true_positives >= 0

\* the ground-truth paths that are compared and draw no discrepancy
MatchedGtPaths ==
    {p \in GtPaths : ~is_non_extractable(p, NonExtractable) /\ DiscrepanciesAt(p) = {}}

\* C29: a ground-truth field whose path matches a non-extractable pattern is
\* skipped by verification entirely: it is counted in none of the true
\* positives, false positives and false negatives of the evaluation's metrics.
C29_SkippedNotCounted ==
    cmp_out.done =>
      /\ met_out.metrics.true_positives = Cardinality(MatchedGtPaths)
      /\ met_out.metrics.false_negatives =
           Cardinality({p \in ComparedPaths : "omission" \in TypesAt(p)})
      /\ met_out.metrics.false_positives =
           Cardinality({p \in ComparedPaths :
                          TypesAt(p) \cap {"hallucination", "wrong_value",
                                           "format_error"} # {}})

\* the part of C29 that holds: no discrepancy is reported for a path that a
\* non-extractable pattern matches, so such a field is in neither the false
\* positives nor the false negatives; it is in the true positives
C29_SkippedNoDiscrepancy ==
    cmp_out.done =>
      /\ \A d \in cmp_out.discrepancies :
           ~is_non_extractable(d.field_path, NonExtractable)
      /\ met_out.metrics.true_positives =
           Cardinality(MatchedGtPaths)
           + Cardinality({p \in GtPaths : is_non_extractable(p, NonExtractable)})

\* the agent processes running for tasks that were not cancelled: through
\* invoke_claude_agent_async (passes, domain extractors) and through
\* invoke_claude_agent (discovery, project extraction)
GatedProcesses ==
    Cardinality({p \in Passes : pass[p].task = "running"})
    + Cardinality({d \in Domains : dom[d].task = "running"})
DirectProcesses ==
    (IF pc = "discovery" THEN 1 ELSE 0) + (IF project.task = "running" THEN 1 ELSE 0)

\* C23: every external agent process spawned during an evaluation run
\* (discovery, project extraction, both orientation passes and the four domain
\* extractors) is started only while holding a permit of the shared semaphore:
\* the processes running never outnumber the permits taken.
C23_ProcessesUnderPermits ==
    GatedProcesses + DirectProcesses <= SemCapacity - sem

\* the part of C23 that holds: the processes of the orientation passes and of
\* the domain extractors run under permits
C23_AsyncUnderPermits ==
    GatedProcesses <= SemCapacity - sem

\* C24: the merged output of an evaluation does not depend on the order in
\* which the four domain extractors complete: for fixed per-domain results,
\* every completion order yields the merged spec, the conflict list and the
\* status map that the results keyed by their own domain give.
C24_OrderIndependent ==
    gathered.done => gathered = MergedOutput(gather_in)

\* a merge after the tasks completed in the reverse of the order of the tasks
\* list, one of them having failed and one succeeded at its second attempt
C24_Witness ==
    /\ gathered.done
    /\ gathered.error = "null"
    /\ finished = <<"dhw", "hvac", "windows", "zones">>
    /\ gather_in["hvac"].status.status = "failed"
    /\ gather_in["windows"].status.retry_count = 1
    /\ gather_in["windows"].status.status = "success"

\* the agent processes running through invoke_claude_agent_async, summed over
\* the worker threads
ProcessesRunning ==
    LET n(w) == worker[w].running[0] + worker[w].running[1]
        F[k \in 0..MaxWorkers] == IF k = 0 THEN 0 ELSE F[k - 1] + n(k)
    IN  F[MaxWorkers]

\* C25: the semaphore bound is process-wide: when several evaluations are
\* extracted in parallel worker threads of one process, the agent processes
\* running at once through invoke_claude_agent_async, summed over all
\* evaluations, never exceed the semaphore capacity.
C25_ProcessWideBound ==
    ProcessesRunning <= SemCapacity

\* the part of C25 that holds: the processes running never exceed the permits
\* taken from the counter
C25_CounterBound ==
    ProcessesRunning <= SemCapacity - sem_value

\* C30: provided every spawned agent process eventually exits or hits its
\* timeout, every run_extraction call eventually returns a record, also when
\* several evaluations run in parallel worker threads of one process.
C30_EveryRunReturns ==
    <>(\A w \in Workers : worker[w].returned)


\* the iteration directories of evaluation e that got their eval-results.json
\* in the step
NewResults(e) == {n \in 1..MaxIter : tree'[e][n].results /\ ~tree[e][n].results}

\* C26: after an improvement run accepted a proposal and took iteration N, the
\* results of the re-verification are stored, for every evaluation, in the
\* iteration-N directory that holds the snapshots taken for the change.
C26_ResultsWithSnapshots ==
    [][ImproveApplied =>
         \A e \in EvalSet : \A n \in NewResults(e) : n = cli_out'.iteration]_vars

\* what holds instead: the snapshots are in iteration N and the results of
\* the re-verification in iteration N + 1
C26_ResultsInNext ==
    [][ImproveApplied =>
         \A e \in EvalSet :
           /\ tree'[e][cli_out'.iteration].snapshots # {}
           /\ ~tree'[e][cli_out'.iteration].results
           /\ \A n \in NewResults(e) : n = cli_out'.iteration + 1]_vars

\* the step is an improve command whose apply_proposal raised
ApplyFailed ==
    /\ cli_out' # cli_out
    /\ cli_out'.cmd = "improve"
    /\ cli_out'.error = "FileNotFoundError"

\* C27: if applying an accepted proposal fails, the improvement run leaves the
\* results tree as it found it, so the next improvement run still finds the
\* latest evaluation results.
C27_FailedApplyLeavesTree ==
    [][ApplyFailed => /\ tree' = tree
                      /\ load_eval_results' = load_eval_results]_vars

\* what holds instead: a failed apply changes no instruction file and no
\* iteration directory that existed, and the directories it leaves are empty
C27_FailedApplyKeepsFiles ==
    [][ApplyFailed =>
         /\ files' = files
         /\ \A e \in EvalSet : \A n \in 1..MaxIter :
              IF tree[e][n].exists THEN tree'[e][n] = tree[e][n]
              ELSE ~tree'[e][n].results /\ tree'[e][n].snapshots = {}]_vars


\* the domains of the fan-out the page router selects no page for
UnroutedDomains == {d \in Domains : get_relevant_pages_for_domain(d, document_map) = {}}

\* the run returned after a stage 1 that returned both its results
ReturnedAfterStage1 == result.returned /\ Stage1Returned

\* C28: if the page router selects no pages for one of the four domains, the
\* evaluation is not aborted: that domain ends with an empty or failed result
\* of its own and the other domains are extracted and merged.
C28_UnroutedDomainOwnFailure ==
    (ReturnedAfterStage1 /\ UnroutedDomains # {}) => MergedRun

\* what holds instead: the run ends with the IndexError of
\* build_pdf_read_instructions as its error, without a building spec, and no
\* domain extractor was started
C28_UnroutedDomainAborts ==
    (ReturnedAfterStage1 /\ UnroutedDomains # {}) =>
      /\ result.error = "IndexError"
      /\ ~result.building_spec.present
      /\ \A d \in Domains : dom[d].calls = 0

====
